---------------------------- MODULE Spec2Model ----------------------------
(***************************************************************************)
(* Timeline synthesis, transition selection, particle overlay streaming    *)
(* and segment-based generation of the slideshow generator.                *)
(*                                                                         *)
(* Durations are exact rationals <<num, den>> (den > 0, lowest terms); the *)
(* program computes them in binary floating point, whose error (~1e-15) is *)
(* far below every tolerance that the properties below speak about.        *)
(***************************************************************************)
EXTENDS Integers, Sequences, FiniteSets, TLC

(***************************************************************************)
(* Bounds of the model                                                     *)
(***************************************************************************)
MaxImages == 7
MaxCalls == 2
MaxSelections == 4
MaxChoice == 2
ExitAfter == 2
MaxValidImages == 3
MaxEffects == 2
MaxStreamFrames == 4

(***************************************************************************)
(* Rational arithmetic                                                     *)
(***************************************************************************)
Abs(x) == IF x < 0 THEN -x ELSE x

RECURSIVE GCD(_, _)
GCD(a, b) == IF b = 0 THEN a ELSE GCD(b, a % b)

Rat(n, d) ==
    LET g == GCD(Abs(n), Abs(d))
        s == IF d < 0 THEN -1 ELSE 1
    IN  << (s * n) \div g, (s * d) \div g >>

R(n) == << n, 1 >>
RAdd(x, y) == Rat(x[1] * y[2] + y[1] * x[2], x[2] * y[2])
RSub(x, y) == Rat(x[1] * y[2] - y[1] * x[2], x[2] * y[2])
RMul(x, y) == Rat(x[1] * y[1], x[2] * y[2])
RDiv(x, y) == Rat(x[1] * y[2], x[2] * y[1])
RLt(x, y) == x[1] * y[2] < y[1] * x[2]
RLe(x, y) == x[1] * y[2] <= y[1] * x[2]
RAbs(x) == << Abs(x[1]), x[2] >>

(***************************************************************************)
(* State                                                                   *)
(***************************************************************************)
VARIABLES
    tc,         \* the TimingCalculator object (its fields), or NoObject
    tcN,        \* argument of the last calculate_timings call
    tcRet,      \* timings dictionary returned by the last call, or NoObject
    tcLog,      \* levels of the messages the last call logged before the breakdown
    tcCalls,    \* number of calculate_timings calls on this object
    selector,   \* the TransitionSelector object (its fields), or NoObject
    selLast,    \* category drawn, filtered pool and Transition returned by the last select_next
    selOps,     \* number of select_next calls, and the last other operation of the selector with its result
    pgen,       \* the ParticleOverlayGenerator object (its fields), or NoObject
    ov,         \* the generate_overlay_video call (its locals; ret once pc is "returned"), or NoObject
    pipe,       \* the frames written to the encoder's stdin, in write order
    gcfg,       \* the SlideshowGenerator object and the inputs of generate, or NoObject
    g,          \* the generate call: its position, locals and result, or NoObject
    calls,      \* the calls generate has made to its collaborators, in call order
    disk,       \* the temporary files that exist (segments, overlays, text files)
    sr,         \* the SegmentRenderer object and its last call, or NoObject
    kb,         \* the KenBurnsGenerator object and the result of its last generate_effect, or NoObject
    aw,         \* a _get_transition_overlay call's arguments and the active windows it computed, or NoObject
    stream      \* the frame loop of generate_overlay_video and the encoder process at the two ends of its pipes, or NoObject

timingVars == << tc, tcN, tcRet, tcLog, tcCalls >>
selectorVars == << selector, selLast, selOps >>
overlayVars == << pgen, ov, pipe >>
generateVars == << gcfg, g, calls, disk >>
rendererVars == << sr >>
kenBurnsVars == << kb >>
windowVars == << aw >>
streamVars == << stream >>
vars == << tc, tcN, tcRet, tcLog, tcCalls, selector, selLast, selOps, pgen, ov, pipe,
           gcfg, g, calls, disk, sr, kb, aw, stream >>

NoObject == << >>

\* Components that take no part in a specification stay unconstructed.
TimingIdle ==
    /\ tc = NoObject
    /\ tcN = 0
    /\ tcRet = NoObject
    /\ tcLog = {}
    /\ tcCalls = 0

SelectorIdle ==
    /\ selector = NoObject
    /\ selLast = NoObject
    /\ selOps = NoObject

OverlayIdle ==
    /\ pgen = NoObject
    /\ ov = NoObject
    /\ pipe = << >>

GenerateIdle ==
    /\ gcfg = NoObject
    /\ g = NoObject
    /\ calls = NoObject
    /\ disk = {}

RendererIdle == sr = NoObject

KenBurnsIdle == kb = NoObject

WindowsIdle == aw = NoObject

StreamIdle == stream = NoObject

(***************************************************************************)
(* TimingCalculator                                                        *)
(***************************************************************************)
AudioDurations == {10, 17, 40, 60}
Opening1Durations == {1, 3}
Opening2Durations == {2, 6}
MinClosingDurations == {4, 8}
ImageDurations == {3, 6}

TimingCalculator_init(audio_duration, timing_config) ==
    [ audio_duration |-> audio_duration,
      timing_config |-> timing_config,
      OPENING_PART1_DURATION |-> timing_config.opening_part1_duration,
      OPENING_PART2_DURATION |-> timing_config.opening_part2_duration,
      IMAGE_DURATION |-> timing_config.duration_per_image,
      MIN_CLOSING_DURATION |-> timing_config.min_closing_duration ]

\* What a call that raises at the division of line 79 leaves instead of a
\* returned dictionary.
ZeroDivisionError == [ raised |-> "ZeroDivisionError" ]

\* calculate_timings with the minimum closing duration left out of the
\* available time (line 75 dropped).
calculate_timings_noMinInAvailable(self, num_regular_images) ==
    LET total0 == RMul(R(num_regular_images), self.IMAGE_DURATION)
        closing0 == RSub(RSub(RSub(self.audio_duration, self.OPENING_PART1_DURATION),
                              self.OPENING_PART2_DURATION), total0)
        short == RLt(closing0, self.MIN_CLOSING_DURATION)
        available_time == RSub(RSub(self.audio_duration, self.OPENING_PART1_DURATION),
                               self.OPENING_PART2_DURATION)
        adjust == short /\ RLt(R(0), available_time)
        image_duration == IF adjust THEN RDiv(available_time, R(num_regular_images))
                                    ELSE self.IMAGE_DURATION
        regular_images_total == IF adjust THEN RMul(R(num_regular_images), image_duration)
                                          ELSE total0
        closing_duration == IF short THEN self.MIN_CLOSING_DURATION ELSE closing0
    IN  IF adjust /\ num_regular_images = 0
          THEN [ self |-> self, log |-> {"warning"}, ret |-> ZeroDivisionError ]
          ELSE
        [ self |-> [self EXCEPT !.IMAGE_DURATION = image_duration],
          log |-> (IF short THEN {"warning"} ELSE {})
                  \cup (IF adjust THEN {"info"} ELSE {})
                  \cup (IF short /\ ~adjust THEN {"error"} ELSE {}),
          ret |-> [ opening_part1 |-> self.OPENING_PART1_DURATION,
                    opening_part2 |-> self.OPENING_PART2_DURATION,
                    image_duration |-> image_duration,
                    regular_images_total |-> regular_images_total,
                    closing |-> closing_duration,
                    total_video |-> RAdd(RAdd(RAdd(self.OPENING_PART1_DURATION,
                                                   self.OPENING_PART2_DURATION),
                                              regular_images_total), closing_duration),
                    num_images |-> num_regular_images ] ]

\* calculate_timings without the recomputation of the regular images' total
\* after the adjustment (line 81 dropped).
calculate_timings_staleTotal(self, num_regular_images) ==
    LET total0 == RMul(R(num_regular_images), self.IMAGE_DURATION)
        closing0 == RSub(RSub(RSub(self.audio_duration, self.OPENING_PART1_DURATION),
                              self.OPENING_PART2_DURATION), total0)
        short == RLt(closing0, self.MIN_CLOSING_DURATION)
        available_time == RSub(RSub(RSub(self.audio_duration, self.OPENING_PART1_DURATION),
                                    self.OPENING_PART2_DURATION), self.MIN_CLOSING_DURATION)
        adjust == short /\ RLt(R(0), available_time)
        image_duration == IF adjust THEN RDiv(available_time, R(num_regular_images))
                                    ELSE self.IMAGE_DURATION
        closing_duration == IF short THEN self.MIN_CLOSING_DURATION ELSE closing0
    IN  IF adjust /\ num_regular_images = 0
          THEN [ self |-> self, log |-> {"warning"}, ret |-> ZeroDivisionError ]
          ELSE
        [ self |-> [self EXCEPT !.IMAGE_DURATION = image_duration],
          log |-> (IF short THEN {"warning"} ELSE {})
                  \cup (IF adjust THEN {"info"} ELSE {})
                  \cup (IF short /\ ~adjust THEN {"error"} ELSE {}),
          ret |-> [ opening_part1 |-> self.OPENING_PART1_DURATION,
                    opening_part2 |-> self.OPENING_PART2_DURATION,
                    image_duration |-> image_duration,
                    regular_images_total |-> total0,
                    closing |-> closing_duration,
                    total_video |-> RAdd(RAdd(RAdd(self.OPENING_PART1_DURATION,
                                                   self.OPENING_PART2_DURATION),
                                              total0), closing_duration),
                    num_images |-> num_regular_images ] ]

\* TimingCalculator.calculate_timings: the object after the call, the levels
\* of the messages logged by the reconciliation, and the returned dictionary.
calculate_timings(self, num_regular_images) ==
    LET total0 == RMul(R(num_regular_images), self.IMAGE_DURATION)
        closing0 == RSub(RSub(RSub(self.audio_duration, self.OPENING_PART1_DURATION),
                              self.OPENING_PART2_DURATION), total0)
        short == RLt(closing0, self.MIN_CLOSING_DURATION)
        available_time == RSub(RSub(RSub(self.audio_duration, self.OPENING_PART1_DURATION),
                                    self.OPENING_PART2_DURATION), self.MIN_CLOSING_DURATION)
        adjust == short /\ RLt(R(0), available_time)
        image_duration == IF adjust THEN RDiv(available_time, R(num_regular_images))
                                    ELSE self.IMAGE_DURATION
        regular_images_total == IF adjust THEN RMul(R(num_regular_images), image_duration)
                                          ELSE total0
        closing_duration == IF short THEN self.MIN_CLOSING_DURATION ELSE closing0
    IN  IF adjust /\ num_regular_images = 0
          THEN [ self |-> self, log |-> {"warning"}, ret |-> ZeroDivisionError ]
          ELSE
        [ self |-> [self EXCEPT !.IMAGE_DURATION = image_duration],
          log |-> (IF short THEN {"warning"} ELSE {})
                  \cup (IF adjust THEN {"info"} ELSE {})
                  \cup (IF short /\ ~adjust THEN {"error"} ELSE {}),
          ret |-> [ opening_part1 |-> self.OPENING_PART1_DURATION,
                    opening_part2 |-> self.OPENING_PART2_DURATION,
                    image_duration |-> image_duration,
                    regular_images_total |-> regular_images_total,
                    closing |-> closing_duration,
                    total_video |-> RAdd(RAdd(RAdd(self.OPENING_PART1_DURATION,
                                                   self.OPENING_PART2_DURATION),
                                              regular_images_total), closing_duration),
                    num_images |-> num_regular_images ] ]

\* A TimingCalculator is constructed from an audio duration and a timing
\* configuration.
InitTiming ==
    /\ \E T \in AudioDurations, a1 \in Opening1Durations, a2 \in Opening2Durations,
          Cmin \in MinClosingDurations, d0 \in ImageDurations :
          tc = TimingCalculator_init(R(T),
                  [ opening_part1_duration |-> R(a1),
                    opening_part2_duration |-> R(a2),
                    duration_per_image |-> R(d0),
                    min_closing_duration |-> R(Cmin) ])
    /\ tcN = 0
    /\ tcRet = NoObject
    /\ tcLog = {}
    /\ tcCalls = 0
    /\ SelectorIdle
    /\ OverlayIdle
    /\ GenerateIdle
    /\ RendererIdle
    /\ KenBurnsIdle
    /\ WindowsIdle
    /\ StreamIdle

\* One call of calculate_timings(n) on the calculator.
CalculateTimings ==
    /\ tc # NoObject
    /\ tcCalls < MaxCalls
    /\ \E n \in 0..MaxImages :
          LET r == calculate_timings(tc, n)
          IN  /\ tc' = r.self
              /\ tcN' = n
              /\ tcRet' = r.ret
              /\ tcLog' = r.log
    /\ tcCalls' = tcCalls + 1
    /\ UNCHANGED << selectorVars, overlayVars, generateVars, rendererVars, kenBurnsVars, windowVars, streamVars >>

NextTiming == CalculateTimings

SpecTiming == InitTiming /\ [][NextTiming]_vars


(***************************************************************************)
(* TransitionSelector                                                      *)
(***************************************************************************)
Min(a, b) == IF a < b THEN a ELSE b

GENTLE == "gentle"
DYNAMIC == "dynamic"
ARTISTIC == "artistic"
TransitionCategory == << GENTLE, DYNAMIC, ARTISTIC >>
Categories == { TransitionCategory[i] : i \in DOMAIN TransitionCategory }

Transition(name, category) == [ name |-> name, category |-> category ]

GENTLE_TRANSITIONS ==
    << Transition("circlecrop", GENTLE), Transition("circleclose", GENTLE),
       Transition("circleopen", GENTLE), Transition("fade", GENTLE),
       Transition("fadeblack", GENTLE), Transition("fadewhite", GENTLE),
       Transition("dissolve", GENTLE), Transition("pixelize", GENTLE),
       Transition("hblur", GENTLE), Transition("vdslice", GENTLE),
       Transition("fadegrays", GENTLE), Transition("fadefast", GENTLE) >>

DYNAMIC_TRANSITIONS ==
    << Transition("smoothleft", DYNAMIC), Transition("smoothright", DYNAMIC),
       Transition("smoothup", DYNAMIC), Transition("smoothdown", DYNAMIC),
       Transition("diagtl", DYNAMIC), Transition("diagtr", DYNAMIC),
       Transition("diagbl", DYNAMIC), Transition("diagbr", DYNAMIC),
       Transition("hlwind", DYNAMIC), Transition("hrwind", DYNAMIC) >>

ARTISTIC_TRANSITIONS ==
    << Transition("radial", ARTISTIC), Transition("zoomin", ARTISTIC),
       Transition("squeezeh", ARTISTIC), Transition("squeezev", ARTISTIC) >>

\* str.lower() on the category names that occur in the weight tables.
Lower(s) ==
    CASE s = "GENTLE" -> "gentle"
      [] s = "Dynamic" -> "dynamic"
      [] OTHER -> s

DEFAULT_WEIGHTS == (GENTLE :> 70) @@ (DYNAMIC :> 20) @@ (ARTISTIC :> 10)

\* Weight tables handed to the selector: every table over the three category
\* names with weights zero or positive, a table with differently cased names,
\* and a table with an unknown category name only.
WeightTables ==
    UNION { [S -> {0, 1}] : S \in SUBSET Categories }
    \cup { ("GENTLE" :> 1) @@ ("Dynamic" :> 1), ("sparkly" :> 1) }

\* TransitionSelector.__init__
TransitionSelector_init(weights, simple_mode) ==
    LET valid == { k \in DOMAIN weights : Lower(k) \in Categories }
        category_weights ==
            [ c \in { Lower(k) : k \in valid } |->
                weights[CHOOSE k \in valid : Lower(k) = c] ]
    IN  [ simple_mode |-> simple_mode,
          history |-> << >>,
          category_history |-> << >>,
          category_weights |-> IF DOMAIN category_weights = {} THEN DEFAULT_WEIGHTS
                                                                ELSE category_weights,
          transitions |-> IF simple_mode
                            THEN SubSeq(GENTLE_TRANSITIONS, 1, 6)
                            ELSE GENTLE_TRANSITIONS \o DYNAMIC_TRANSITIONS
                                    \o ARTISTIC_TRANSITIONS ]

\* sum(weights) over a set of categories
RECURSIVE SumWeights(_, _)
SumWeights(w, cats) ==
    IF cats = {} THEN 0
    ELSE LET c == CHOOSE x \in cats : TRUE
         IN  w[c] + SumWeights(w, cats \ {c})

\* random.choices(cats, weights): the categories that can be drawn
Choices(w, cats) == { c \in cats : w[c] > 0 }

\* self.history[-n:] as a sequence
LastN(seq, n) == SubSeq(seq, Len(seq) - Min(n, Len(seq)) + 1, Len(seq))
Elems(seq) == { seq[i] : i \in DOMAIN seq }

\* _select_category whose forced switch does not exclude the repeated
\* category (the 'cat != current_cat' tests dropped).
_select_category_noExclude(self) ==
    LET categories == { c \in Categories : c \in DOMAIN self.category_weights }
    IN  IF categories = {} \/ SumWeights(self.category_weights, categories) = 0
          THEN Categories
          ELSE Choices(self.category_weights, categories)

\* _select_category without the safety checks: random.choices over the
\* configured categories, which raises (no outcome) when their weights sum
\* to zero.
_select_category_noFallback(self) ==
    LET recent_categories == LastN(self.category_history, 3)
        current_cat == recent_categories[1]
        available_cats == { c \in Categories :
                              c # current_cat /\ c \in DOMAIN self.category_weights }
        categories == { c \in Categories : c \in DOMAIN self.category_weights }
    IN  IF Len(self.category_history) >= 3 /\ Cardinality(Elems(recent_categories)) = 1
          THEN Choices(self.category_weights, available_cats)
          ELSE Choices(self.category_weights, categories)

\* TransitionSelector._select_category: the set of categories the call can
\* return (one per outcome of the random draw).
_select_category(self) ==
    LET recent_categories == LastN(self.category_history, 3)
        current_cat == recent_categories[1]
        available_cats == { c \in Categories :
                              c # current_cat /\ c \in DOMAIN self.category_weights }
        categories == { c \in Categories : c \in DOMAIN self.category_weights }
    IN  IF Len(self.category_history) >= 3 /\ Cardinality(Elems(recent_categories)) = 1
          THEN IF available_cats = {} \/ SumWeights(self.category_weights, available_cats) = 0
                 THEN { c \in Categories : c # current_cat }
                 ELSE Choices(self.category_weights, available_cats)
          ELSE IF categories = {} \/ SumWeights(self.category_weights, categories) = 0
                 THEN Categories
                 ELSE Choices(self.category_weights, categories)

\* The pool of select_next without the filter on recently used names.
select_pool_noFilter(self, category) ==
    LET in_category == SelectSeq(self.transitions, LAMBDA t : t.category = category)
        category_transitions == IF in_category = << >> THEN self.transitions
                                                       ELSE in_category
    IN  [ filtered |-> category_transitions, available |-> category_transitions ]

\* The pool select_next draws from for a category (lines 131-142): the
\* category's transitions (all transitions when it has none) without the two
\* most recently used names, or unfiltered when the filter leaves nothing.
select_pool(self, category) ==
    LET in_category == SelectSeq(self.transitions, LAMBDA t : t.category = category)
        category_transitions == IF in_category = << >> THEN self.transitions
                                                       ELSE in_category
        filtered == SelectSeq(category_transitions,
                        LAMBDA t : t.name \notin Elems(LastN(self.history, 2)))
    IN  [ filtered |-> filtered,
          available |-> IF filtered = << >> THEN category_transitions ELSE filtered ]

\* A selector is constructed from a weight table and the simple-mode flag.
InitSelector ==
    /\ \E weights \in WeightTables, simple_mode \in BOOLEAN :
          selector = TransitionSelector_init(weights, simple_mode)
    /\ selLast = NoObject
    /\ selOps = [ select_next |-> 0, last |-> NoObject ]
    /\ TimingIdle
    /\ OverlayIdle
    /\ GenerateIdle
    /\ RendererIdle
    /\ KenBurnsIdle
    /\ WindowsIdle
    /\ StreamIdle

\* select_next keeping a rolling window of the last three selections.
select_next_rolling ==
    /\ selector # NoObject
    /\ selOps.select_next < MaxSelections
    /\ \E category \in _select_category(selector) :
          LET pool == select_pool(selector, category)
          IN  \E k \in 1..Min(Len(pool.available), MaxChoice) :
                 /\ selector' = [selector EXCEPT
                        !.history = LastN(Append(@, pool.available[k].name), 3),
                        !.category_history = LastN(Append(@, category), 3)]
                 /\ selLast' = [ category |-> category,
                                 filtered |-> pool.filtered,
                                 transition |-> pool.available[k] ]
    /\ selOps' = [selOps EXCEPT !.select_next = @ + 1]
    /\ UNCHANGED << timingVars, overlayVars, generateVars, rendererVars, kenBurnsVars, windowVars, streamVars >>

\* TransitionSelector.select_next; random.choice is drawn among the first
\* MaxChoice entries of the pool.
select_next ==
    /\ selector # NoObject
    /\ Len(selector.history) < MaxSelections
    /\ \E category \in _select_category(selector) :
          LET pool == select_pool(selector, category)
          IN  \E k \in 1..Min(Len(pool.available), MaxChoice) :
                 /\ selector' = [selector EXCEPT
                        !.history = Append(@, pool.available[k].name),
                        !.category_history = Append(@, category)]
                 /\ selLast' = [ category |-> category,
                                 filtered |-> pool.filtered,
                                 transition |-> pool.available[k] ]
    /\ selOps' = [selOps EXCEPT !.select_next = @ + 1]
    /\ UNCHANGED << timingVars, overlayVars, generateVars, rendererVars, kenBurnsVars, windowVars, streamVars >>

\* list.count
Count(seq, x) == Cardinality({ i \in DOMAIN seq : seq[i] = x })

\* The empty dictionary get_statistics returns before the first selection.
EmptyDict == << >>

\* get_statistics: the dictionary returned for a selector; percentages are
\* (count / total) * 100.
get_statistics_result(self) ==
    LET total == Len(self.history)
    IN  IF total = 0
          THEN EmptyDict
          ELSE [ total_transitions |-> total,
                 unique_transitions |-> Cardinality(Elems(self.history)),
                 category_distribution |->
                     [ category \in Categories |->
                         [ count |-> Count(self.category_history, category),
                           percentage |->
                               RMul(Rat(Count(self.category_history, category), total),
                                    R(100)) ] ] ]

\* TransitionSelector.get_statistics
get_statistics ==
    /\ selector # NoObject
    /\ selOps' = [selOps EXCEPT !.last = [ op |-> "get_statistics",
                                           ret |-> get_statistics_result(selector),
                                           log |-> << >> ]]
    /\ UNCHANGED << selector, selLast, timingVars, overlayVars, generateVars, rendererVars, kenBurnsVars, windowVars, streamVars >>

\* TransitionSelector.log_summary: logs the statistics, nothing when there
\* are none; returns None.
log_summary ==
    /\ selector # NoObject
    /\ LET stats == get_statistics_result(selector)
       IN  selOps' = [selOps EXCEPT !.last =
                        [ op |-> "log_summary",
                          ret |-> NoObject,
                          log |-> IF stats = EmptyDict THEN << >>
                                  ELSE << "summary", stats.total_transitions,
                                          stats.unique_transitions >> ]]
    /\ UNCHANGED << selector, selLast, timingVars, overlayVars, generateVars, rendererVars, kenBurnsVars, windowVars, streamVars >>

\* TransitionSelector.should_add_anniversary_overlay: returns False at its
\* first statement for every index and total.
should_add_anniversary_overlay ==
    /\ selector # NoObject
    /\ \E transition_index \in 0..1, total_transitions \in 1..2 :
          selOps' = [selOps EXCEPT !.last = [ op |-> "should_add_anniversary_overlay",
                                               ret |-> FALSE, log |-> << >> ]]
    /\ UNCHANGED << selector, selLast, timingVars, overlayVars, generateVars, rendererVars, kenBurnsVars, windowVars, streamVars >>

NextSelector == select_next

SpecSelector == InitSelector /\ [][NextSelector]_vars

\* A selector on which every operation is called: constructed from a table
\* with differently cased names or from one with an unknown name only (the
\* defaults).
InitSelectorOps ==
    /\ \E weights \in { ("GENTLE" :> 1) @@ ("Dynamic" :> 1), ("sparkly" :> 1) },
          simple_mode \in BOOLEAN :
          selector = TransitionSelector_init(weights, simple_mode)
    /\ selLast = NoObject
    /\ selOps = [ select_next |-> 0, last |-> NoObject ]
    /\ TimingIdle
    /\ OverlayIdle
    /\ GenerateIdle
    /\ RendererIdle
    /\ KenBurnsIdle
    /\ WindowsIdle
    /\ StreamIdle

NextSelectorOps ==
    \/ select_next
    \/ get_statistics
    \/ log_summary
    \/ should_add_anniversary_overlay

SpecSelectorOps == InitSelectorOps /\ [][NextSelectorOps]_vars

(***************************************************************************)
(* ParticleOverlayGenerator                                                *)
(***************************************************************************)
\* None where a list is expected (an empty list is treated alike by every test
\* of the code that reads one).
None == << >>

HEARTS == "hearts"
SPARKLES == "sparkles"
PETALS == "petals"
CONFETTI == "confetti"
RANDOM == "random"
ParticleType == { HEARTS, SPARKLES, PETALS, CONFETTI, RANDOM }
CONCRETE_TYPES == << HEARTS, SPARKLES, PETALS, CONFETTI >>

\* int(x): truncation toward zero
IntTrunc(x) == IF x[1] >= 0 THEN x[1] \div x[2] ELSE -((-x[1]) \div x[2])

\* round(x): to the nearest integer, halves to the even neighbour
PyRound(x) ==
    LET fl == IF x[1] >= 0 THEN x[1] \div x[2] ELSE -((-x[1] + x[2] - 1) \div x[2])
        twice == 2 * (x[1] - fl * x[2])
    IN  IF twice < x[2] THEN fl
        ELSE IF twice > x[2] THEN fl + 1
        ELSE IF fl % 2 = 0 THEN fl ELSE fl + 1

Clamp01(x) == IF RLt(x, R(0)) THEN R(0) ELSE IF RLt(R(1), x) THEN R(1) ELSE x

size_map(size) ==
    CASE size = "extra_small" -> Rat(1, 4)
      [] size = "small" -> Rat(1, 2)
      [] size = "medium" -> R(1)
      [] size = "large" -> Rat(3, 2)
      [] size = "extra_large" -> R(2)
      [] OTHER -> R(1)

\* ParticleOverlayGenerator.__init__; PIL_AVAILABLE is the module-level flag
\* of the import of Pillow, kept with the object that reads it.
ParticleOverlayGenerator_init(overlay_config, resolution, fps, pil) ==
    LET density == Clamp01(overlay_config.density)
    IN  [ width |-> resolution[1],
          height |-> resolution[2],
          fps |-> fps,
          enabled |-> overlay_config.enabled,
          particle_type |-> IF overlay_config.type \in ParticleType
                              THEN overlay_config.type ELSE HEARTS,
          is_random_mode |-> overlay_config.type = RANDOM,
          density |-> density,
          application_rate |-> Clamp01(overlay_config.application_rate),
          apply_to_opening |-> overlay_config.apply_to_opening,
          apply_to_closing |-> overlay_config.apply_to_closing,
          size_multiplier |-> size_map(overlay_config.size),
          particle_count |-> IntTrunc(RAdd(R(15), RMul(density, R(35)))),
          PIL_AVAILABLE |-> pil ]

\* Outcomes of the random draws of one spawn: whether the lifetime is the
\* upper or the lower end of its range, and after how many updates the
\* particle has left the visible area (-1: it stays inside), which the code
\* derives from the drawn position, size and speed.
Draws == [ life_hi : BOOLEAN, out_in : {-1, ExitAfter} ]
\* Lifetime range of a spawn, in tenths of a frame.
LifeRange(self, total_frames) ==
    CASE self.particle_type = HEARTS -> << 5 * total_frames, 9 * total_frames >>
      [] self.particle_type = SPARKLES -> << 5 * self.fps, 15 * self.fps >>
      [] self.particle_type = PETALS -> << 4 * total_frames, 8 * total_frames >>
      [] OTHER -> << 3 * total_frames, 7 * total_frames >>

\* _spawn_particle giving every type a lifetime in seconds, whatever the
\* number of frames it is called with.
_spawn_particle_secondsLife(self, total_frames, initial, draw) ==
    LET life == << 5 * self.fps, 15 * self.fps >>[IF draw.life_hi THEN 2 ELSE 1]
    IN  [ life |-> life,
          max_life |-> life,
          out_in |-> IF self.particle_type = SPARKLES THEN -1 ELSE draw.out_in ]

\* ParticleOverlayGenerator._spawn_particle
_spawn_particle(self, total_frames, initial, draw) ==
    LET life == LifeRange(self, total_frames)[IF draw.life_hi THEN 2 ELSE 1]
    IN  [ life |-> life,
          max_life |-> life,
          out_in |-> IF self.particle_type = SPARKLES THEN -1 ELSE draw.out_in ]

\* ParticleOverlayGenerator._init_particles; the spawns of one call share the
\* outcome of their draws.
_init_particles(self, total_frames, draw) ==
    [ i \in 1..self.particle_count |-> _spawn_particle(self, total_frames, TRUE, draw) ]

\* _update_particles that drops a dead or departed particle instead of
\* overwriting its slot.
_update_particles_dropDead(self, particles, frame_num, total_frames, draw) ==
    LET step(p) == [p EXCEPT !.life = @ - 10,
                             !.out_in = IF @ > 0 THEN @ - 1 ELSE @]
        gone(p) == p.life <= 0 \/ (self.particle_type # SPARKLES /\ p.out_in = 0)
        moved == [ i \in DOMAIN particles |-> step(particles[i]) ]
    IN  SelectSeq(moved, LAMBDA p : ~gone(p))

\* ParticleOverlayGenerator._update_particles: every particle ages and moves;
\* one whose life is exhausted or that is outside the visible area is
\* replaced in its slot by a new spawn.
_update_particles(self, particles, frame_num, total_frames, draw) ==
    LET step(p) == [p EXCEPT !.life = @ - 10,
                             !.out_in = IF @ > 0 THEN @ - 1 ELSE @]
        gone(p) == p.life <= 0 \/ (self.particle_type # SPARKLES /\ p.out_in = 0)
    IN  [ i \in DOMAIN particles |->
            IF gone(step(particles[i]))
              THEN _spawn_particle(self, total_frames, FALSE, draw)
              ELSE step(particles[i]) ]

\* total_frames with the product rounded instead of truncated.
total_frames_of_rounded(duration, fps) == PyRound(RMul(duration, R(fps)))

\* total_frames of generate_overlay_video (line 176)
total_frames_of(duration, fps) == IntTrunc(RMul(duration, R(fps)))

\* The frame-level active ranges (lines 181-191); an empty or missing window
\* list gives None.
active_frame_ranges_of(active_windows, fps, total_frames) ==
    IF active_windows = None
      THEN None
      ELSE [ i \in DOMAIN active_windows |->
               << IntTrunc(RMul(active_windows[i][1], R(fps))),
                  Min(IntTrunc(RMul(active_windows[i][2], R(fps))), total_frames) >> ]

\* The range test with the end frame included.
window_idx_of_endInclusive(ranges, frame_num) ==
    LET hits == { i \in DOMAIN ranges :
                    ranges[i][1] <= frame_num /\ frame_num <= ranges[i][2] }
    IN  IF hits = {} THEN -1
        ELSE (CHOOSE i \in hits : \A j \in hits : i <= j) - 1

\* Index of the first range that holds the frame, or -1 (lines 225-233).
window_idx_of(ranges, frame_num) ==
    LET hits == { i \in DOMAIN ranges :
                    ranges[i][1] <= frame_num /\ frame_num < ranges[i][2] }
    IN  IF hits = {} THEN -1
        ELSE (CHOOSE i \in hits : \A j \in hits : i <= j) - 1

transparent_bytes(frame_num) ==
    [ frame_num |-> frame_num, kind |-> "transparent", ops |-> {}, pool |-> 0 ]

\* _render_frame(particles).tobytes() for the frame of an iteration, with the
\* particle operations the iteration performed.
rendered_bytes(frame_num, ops, particles) ==
    [ frame_num |-> frame_num, kind |-> "rendered", ops |-> ops \cup {"render"},
      pool |-> Len(particles) ]

\* The active windows of a middle segment without the split of a short one.
active_windows_of_noSplit(duration, segment_position, td) ==
    IF segment_position = "opening"
      THEN << << IF RLt(RSub(duration, td), R(0)) THEN R(0) ELSE RSub(duration, td),
                 duration >> >>
    ELSE IF segment_position = "closing"
      THEN << << R(0), IF RLt(td, duration) THEN td ELSE duration >> >>
      ELSE << << R(0), td >>, << RSub(duration, td), duration >> >>

\* The active windows _get_transition_overlay computes for a segment
\* (slideshow_generator.py lines 296-312).
active_windows_of(duration, segment_position, td) ==
    IF segment_position = "opening"
      THEN << << IF RLt(RSub(duration, td), R(0)) THEN R(0) ELSE RSub(duration, td),
                 duration >> >>
    ELSE IF segment_position = "closing"
      THEN << << R(0), IF RLt(td, duration) THEN td ELSE duration >> >>
    ELSE IF RLe(duration, RMul(R(2), td))
      THEN << << R(0), RDiv(duration, R(2)) >>, << RDiv(duration, R(2)), duration >> >>
      ELSE << << R(0), td >>, << RSub(duration, td), duration >> >>

\* Inputs of generate_overlay_video: short overlays at 2 fps with every window
\* shape the generator is called with and some it is not, and the 5 s overlay
\* at 30 fps with the windows (0,1) and (4,5).
OverlayDurations == { Rat(1, 4), R(1), Rat(19, 10), R(3) }
OverlayFps == { 2, 30 }
OverlayWindows(duration) ==
    { None, << << R(0), R(5) >> >>, << << R(0), R(2) >>, << R(1), R(3) >> >> }
    \cup { active_windows_of(duration, pos, Rat(9, 10)) :
              pos \in { "opening", "closing", "middle" } }
OverlayInputs ==
    { [ fps |-> 2, duration |-> d, active_windows |-> w ] :
          d \in OverlayDurations, w \in UNION { OverlayWindows(x) : x \in OverlayDurations } }
    \cup { [ fps |-> 30, duration |-> R(5),
             active_windows |-> << << R(0), R(1) >>, << R(4), R(5) >> >> ],
           [ fps |-> 30, duration |-> Rat(1, 4), active_windows |-> None ] }

OverlayConfigs ==
    [ enabled : {TRUE},
      type : { HEARTS, SPARKLES, PETALS, CONFETTI, "stars" },
      density : { Rat(-1, 2), R(0), Rat(1, 2), R(1), R(2) },
      application_rate : { Rat(3, 10) },
      apply_to_opening : {TRUE},
      apply_to_closing : {TRUE},
      size : { "medium" } ]

\* A generator is constructed; no overlay is being generated.
InitOverlay ==
    /\ \E cfg \in OverlayConfigs, fps \in OverlayFps, pil \in BOOLEAN :
          pgen = ParticleOverlayGenerator_init(cfg, << 1920, 1080 >>, fps, pil)
    /\ ov = NoObject
    /\ pipe = << >>
    /\ TimingIdle
    /\ SelectorIdle
    /\ GenerateIdle
    /\ RendererIdle
    /\ KenBurnsIdle
    /\ WindowsIdle
    /\ StreamIdle

Returned(call, value) == [call EXCEPT !.pc = "returned", !.ret = value]

\* generate_overlay_video up to the frame loop (lines 172-219): the early
\* returns, the frame ranges, and the start of the encoder process, which
\* raises when the process cannot be started.
generate_overlay_video_begin ==
    /\ pgen # NoObject
    /\ ov = NoObject
    /\ \E in \in OverlayInputs, popen_ok \in BOOLEAN :
          LET total_frames == total_frames_of(in.duration, pgen.fps)
              call == [ pc |-> "loop",
                        ret |-> FALSE,
                        duration |-> in.duration,
                        active_windows |-> in.active_windows,
                        total_frames |-> total_frames,
                        active_frame_ranges |->
                            active_frame_ranges_of(in.active_windows, pgen.fps, total_frames),
                        frame_num |-> 0,
                        particles |-> None,
                        current_window_idx |-> -1 ]
          IN  /\ in.fps = pgen.fps
              /\ ov' = IF ~pgen.PIL_AVAILABLE \/ total_frames <= 0 \/ ~popen_ok
                         THEN Returned(call, FALSE)
                         ELSE call
    /\ pipe' = << >>
    /\ UNCHANGED << pgen, timingVars, selectorVars, generateVars, rendererVars, kenBurnsVars, windowVars, streamVars >>

\* One iteration of the frame loop (lines 222-254) for a frame outside every
\* active range: the transparent buffer is written.
overlay_frame_inactive ==
    /\ ov # NoObject
    /\ ov.pc = "loop"
    /\ ov.frame_num < ov.total_frames
    /\ ov.active_frame_ranges # None
    /\ window_idx_of(ov.active_frame_ranges, ov.frame_num) = -1
    /\ pipe' = Append(pipe, transparent_bytes(ov.frame_num))
    /\ ov' = [ov EXCEPT !.frame_num = @ + 1]
    /\ UNCHANGED << pgen, timingVars, selectorVars, generateVars, rendererVars, kenBurnsVars, windowVars, streamVars >>

\* One iteration of the frame loop for a frame of an active range, or for any
\* frame when there are no ranges: the pool is initialised on entering a
\* window, updated, rendered, and the frame is written.
overlay_frame_active ==
    /\ ov # NoObject
    /\ ov.pc = "loop"
    /\ ov.frame_num < ov.total_frames
    /\ \E d_init \in Draws, d_update \in Draws :
          IF ov.active_frame_ranges # None
            THEN LET window_idx == window_idx_of(ov.active_frame_ranges, ov.frame_num)
                     range == ov.active_frame_ranges[window_idx + 1]
                     window_length == range[2] - range[1]
                     fresh == window_idx # ov.current_window_idx
                     pool == IF fresh THEN _init_particles(pgen, window_length, d_init)
                                      ELSE ov.particles
                     particles == _update_particles(pgen, pool, ov.frame_num - range[1],
                                                    window_length, d_update)
                 IN  /\ window_idx # -1
                     /\ ov' = [ov EXCEPT !.particles = particles,
                                         !.current_window_idx = window_idx,
                                         !.frame_num = @ + 1]
                     /\ pipe' = Append(pipe,
                            rendered_bytes(ov.frame_num,
                                (IF fresh THEN {"init"} ELSE {}) \cup {"update"}, particles))
            ELSE LET fresh == ov.particles = None
                     pool == IF fresh THEN _init_particles(pgen, ov.total_frames, d_init)
                                      ELSE ov.particles
                     particles == _update_particles(pgen, pool, ov.frame_num,
                                                    ov.total_frames, d_update)
                 IN  /\ ov' = [ov EXCEPT !.particles = particles,
                                         !.frame_num = @ + 1]
                     /\ pipe' = Append(pipe,
                            rendered_bytes(ov.frame_num,
                                (IF fresh THEN {"init"} ELSE {}) \cup {"update"}, particles))
    /\ UNCHANGED << pgen, timingVars, selectorVars, generateVars, rendererVars, kenBurnsVars, windowVars, streamVars >>

\* A write to the encoder's stdin raises (the encoder has exited): the
\* exception handler returns False (lines 266-268).
overlay_write_fails ==
    /\ ov # NoObject
    /\ ov.pc = "loop"
    /\ ov.frame_num < ov.total_frames
    /\ ov' = Returned(ov, FALSE)
    /\ UNCHANGED << pgen, pipe, timingVars, selectorVars, generateVars, rendererVars, kenBurnsVars, windowVars, streamVars >>

\* After the loop (lines 256-268): stdin is closed and the encoder awaited;
\* exit status 0 gives True, another status or the timeout gives False.
generate_overlay_video_end ==
    /\ ov # NoObject
    /\ ov.pc = "loop"
    /\ ov.frame_num = ov.total_frames
    /\ \E outcome \in { "exit0", "exit1", "timeout" } :
          ov' = Returned(ov, outcome = "exit0")
    /\ UNCHANGED << pgen, pipe, timingVars, selectorVars, generateVars, rendererVars, kenBurnsVars, windowVars, streamVars >>

NextOverlay ==
    \/ generate_overlay_video_begin
    \/ overlay_frame_inactive
    \/ overlay_frame_active
    \/ overlay_write_fails
    \/ generate_overlay_video_end

SpecOverlay == InitOverlay /\ [][NextOverlay]_vars

(***************************************************************************)
(* SlideshowGenerator                                                      *)
(***************************************************************************)
\* '{x:.<digits>f}': the value rounded to that many decimals, as the integer
\* number of units of the last decimal.
Fmt(x, digits) ==
    PyRound(RMul(x, R(IF digits = 1 THEN 10 ELSE 100)))

\* ParticleOverlayGenerator.get_cache_key: the fields of the key string; the
\* digest of the string stands for the string.
get_cache_key(self, duration, active_windows) ==
    << self.particle_type, Fmt(self.density, 2), Fmt(self.size_multiplier, 1),
       Fmt(duration, 2), self.width, self.height,
       [ i \in DOMAIN active_windows |->
           << Fmt(active_windows[i][1], 2), Fmt(active_windows[i][2], 2) >> ] >>

\* ParticleOverlayGenerator.should_apply: the values the call can return.
should_apply(self) ==
    IF ~self.enabled \/ ~self.PIL_AVAILABLE
      THEN {FALSE}
      ELSE { b \in BOOLEAN : IF b THEN RLt(R(0), self.application_rate)
                                  ELSE RLt(self.application_rate, R(1)) }

\* ParticleOverlayGenerator.randomize_type with the k-th concrete type drawn.
randomize_type(self, k) == [self EXCEPT !.particle_type = CONCRETE_TYPES[k]]

\* The values generate_overlay_video can return for a duration: False without
\* Pillow or without a whole frame, otherwise what the encoder allows.
generate_overlay_video_results(self, duration) ==
    IF ~self.PIL_AVAILABLE \/ total_frames_of(duration, self.fps) <= 0
      THEN {FALSE}
      ELSE BOOLEAN

\* Outcomes of one run of the external engine: it exits with status 0 and
\* leaves the output file, exits with another status, exits with status 0
\* without an output file, cannot be started or read (an exception inside the
\* try block), or never exits.
EngineOutcomes == { "ok", "exit1", "nofile", "exception", "hang" }

\* What a run of the engine for a segment shows to render_segment: its
\* outcome, the last frame number parsed from its output and the duration
\* _get_duration measures on the output file (0.0 when the probe fails).
EngineRuns(duration, fps) ==
    LET expected_frames == IntTrunc(RMul(duration, R(fps)))
    IN  { [ outcome |-> "ok", frame_count |-> fc, actual_duration |-> ad ] :
            fc \in { expected_frames, expected_frames + 10, expected_frames + 11, 0 },
            ad \in { duration, RAdd(duration, Rat(1, 2)), RAdd(duration, R(1)), R(0) } }
        \cup { [ outcome |-> o, frame_count |-> 0, actual_duration |-> R(0) ] :
                 o \in EngineOutcomes \ { "ok" } }

\* The runs generate is followed through: an exact segment, one with a frame
\* count off by 11 and a failed duration probe, and every failure.
GenEngineRuns(duration, fps) ==
    LET expected_frames == IntTrunc(RMul(duration, R(fps)))
    IN  { run \in EngineRuns(duration, fps) :
            run.outcome = "ok" =>
                << run.frame_count, run.actual_duration >> \in
                    { << expected_frames, duration >>,
                      << expected_frames + 11, R(0) >> } }

\* render_segment returning True whenever the output file exists, whatever
\* the exit status.
render_segment_ignoreStatus(fps, duration, run) ==
    [ returned |-> run.outcome # "hang",
      ret |-> run.outcome \in { "ok", "exit1" },
      log |-> {} ]

\* render_segment failing the segment on a frame-count mismatch.
render_segment_strictFrames(fps, duration, run) ==
    LET frame_diff == Abs(run.frame_count - IntTrunc(RMul(duration, R(fps))))
    IN  [ returned |-> run.outcome # "hang",
          ret |-> run.outcome = "ok" /\ frame_diff <= 10,
          log |-> IF run.outcome = "ok" /\ frame_diff <= 10 THEN { "info" } ELSE { "error" } ]

\* SegmentRenderer.render_segment (lines 93-178): whether the call returns,
\* its result and the levels of the messages it logs from line 140 on. The
\* engine's output is read and waited for without a timeout, so a run that
\* never exits never lets the call return.
render_segment(fps, duration, run) ==
    LET expected_frames == IntTrunc(RMul(duration, R(fps)))
        frame_diff == Abs(run.frame_count - expected_frames)
        duration_diff == RAbs(RSub(run.actual_duration, duration))
    IN  CASE run.outcome = "hang" ->
               [ returned |-> FALSE, ret |-> FALSE, log |-> {} ]
          [] run.outcome = "ok" ->
               [ returned |-> TRUE, ret |-> TRUE,
                 log |-> { "info" } \cup
                         (IF frame_diff > 10 THEN { "error" }
                          ELSE IF RLt(Rat(1, 2), duration_diff) THEN { "warning" }
                          ELSE {}) ]
          [] OTHER ->
               [ returned |-> TRUE, ret |-> FALSE, log |-> { "error" } ]

\* concatenate_segments running the engine on an empty list.
concatenate_segments_noEmptyCheck(segments, outcome) ==
    [ returned |-> outcome # "hang",
      ret |-> outcome = "ok",
      engine_invoked |-> outcome # "exception",
      log |-> IF outcome = "ok" THEN { "info" } ELSE { "error" } ]

\* SegmentRenderer.concatenate_segments (lines 258-338): whether the call
\* returns, its result, whether the engine was started and the levels logged.
concatenate_segments(segments, outcome) ==
    IF segments = << >>
      THEN [ returned |-> TRUE, ret |-> FALSE, engine_invoked |-> FALSE,
             log |-> { "error" } ]
      ELSE [ returned |-> outcome # "hang",
             ret |-> outcome = "ok",
             engine_invoked |-> outcome # "exception",
             log |-> IF outcome = "ok" THEN { "info" } ELSE { "error" } ]

\* The record of a SegmentRenderer call: the operation, its arguments, the
\* engine run, the timeout given to the subprocess wait (None: no timeout is
\* passed), and what the call did.
RendererCall(op, name, duration, output_file, segments, run, result, invoked) ==
    [ op |-> op, name |-> name, duration |-> duration, output_file |-> output_file,
      segments |-> segments, engine |-> run, engine_invoked |-> invoked,
      timeout |-> None,
      returned |-> result.returned, ret |-> result.ret, log |-> result.log ]

\* TimingCalculator.get_image_durations
\* get_image_durations handing out the configured nominal duration.
get_image_durations_nominal(self, num_images) ==
    [ i \in 1..num_images |-> self.timing_config.duration_per_image ]

get_image_durations(self, num_images) == [ i \in 1..num_images |-> self.IMAGE_DURATION ]

\* overlay_cache[cache_key] = overlay_file dropped.
cache_store_never(overlay_cache, cache_key, overlay_file) == overlay_cache

\* overlay_cache[cache_key] = overlay_file; the dictionary is a set of
\* << key, path >> pairs with one pair per key.
cache_store(overlay_cache, cache_key, overlay_file) ==
    { e \in overlay_cache : e[1] # cache_key } \cup { << cache_key, overlay_file >> }

cache_keys(overlay_cache) == { e[1] : e \in overlay_cache }
cache_get(overlay_cache, cache_key) ==
    (CHOOSE e \in overlay_cache : e[1] = cache_key)[2]

\* Inputs of a generation run.
GenAudioDurations == { 10, 20, 60 }
DEFAULT_TIMING ==
    [ opening_part1_duration |-> R(3),
      opening_part2_duration |-> R(6),
      duration_per_image |-> R(6),
      min_closing_duration |-> R(8) ]
ParticleSettings ==
    { [ enabled |-> e, type |-> t, density |-> Rat(1, 2), application_rate |-> Rat(1, 2),
        apply_to_opening |-> a, apply_to_closing |-> a, size |-> "medium" ] :
      e \in BOOLEAN, t \in { HEARTS, RANDOM }, a \in BOOLEAN }

\* A SlideshowGenerator is constructed and generate is about to be called with
\* a list of images of which n_valid are readable and n_special are the
\* special photo.
InitGenerate ==
    /\ \E T \in GenAudioDurations, probe_ok \in BOOLEAN,
          n_valid \in 0..MaxValidImages, n_special \in 1..2,
          settings \in ParticleSettings, pil \in BOOLEAN :
          /\ (~settings.enabled) => (settings.type = HEARTS /\ settings.apply_to_opening /\ pil)
          /\ (~pil) => (settings.type = HEARTS /\ settings.apply_to_opening)
          /\ (~probe_ok) => (T = 60 /\ n_valid = 2 /\ n_special = 1)
          /\ (T # 60 \/ settings.type = RANDOM) =>
                (settings.enabled /\ settings.apply_to_opening /\ pil)
          /\ (T # 60) => settings.type = HEARTS
          /\ gcfg = [ audio_duration |-> R(T),
                      probe_ok |-> probe_ok,
                      n_valid |-> n_valid,
                      n_special |-> n_special,
                      timing_settings |-> DEFAULT_TIMING,
                      transition_duration |-> Rat(9, 10),
                      fps |-> 30,
                      resolution |-> << 1920, 1080 >>,
                      text_opening_enabled |-> TRUE,
                      text_closing_texts |-> 2 ]
          /\ pgen = ParticleOverlayGenerator_init(settings, << 1920, 1080 >>, 30, pil)
    /\ g = [ pc |-> "start", ret |-> "None", regular |-> 0, timings |-> NoObject,
             metadata |-> << >>, temp_dir |-> FALSE, sequence_builder |-> FALSE,
             temp_text_files |-> << >>, overlay_cache |-> {}, segments |-> << >>,
             i |-> 1, overlay |-> None,
             cleanup |-> [ ran |-> FALSE, text_failed |-> FALSE, rmtree_failed |-> FALSE ] ]
    /\ calls = [ renders |-> << >>, lookups |-> << >>, simulations |-> << >>,
                 concats |-> << >> ]
    /\ disk = {}
    /\ sr = [ fps |-> 30, call |-> NoObject ]
    /\ ov = NoObject
    /\ pipe = << >>
    /\ TimingIdle
    /\ SelectorIdle
    /\ KenBurnsIdle
    /\ WindowsIdle
    /\ StreamIdle

\* Lines 94-113: the audio is probed (a failing probe raises) and the images
\* are validated.
gen_validate ==
    /\ g # NoObject /\ g.pc = "start"
    /\ g' = IF ~gcfg.probe_ok \/ gcfg.n_valid < 2
              THEN [g EXCEPT !.pc = "finally", !.ret = "False"]
              ELSE [g EXCEPT !.pc = "timings"]
    /\ UNCHANGED << sr, gcfg, calls, disk, timingVars, selectorVars, overlayVars, kenBurnsVars, windowVars, streamVars >>

\* Lines 115-148: the special photo is taken out of the images, the timings
\* are calculated, the metadata built and saved, the temp directory and the
\* sequence builder created.
gen_timings ==
    /\ g # NoObject /\ g.pc = "timings"
    /\ LET regular == IF gcfg.n_special < gcfg.n_valid
                        THEN gcfg.n_valid - gcfg.n_special ELSE 0
           r == calculate_timings(
                    TimingCalculator_init(gcfg.audio_duration, gcfg.timing_settings),
                    regular)
       IN  /\ tc' = r.self
           /\ tcN' = regular
           /\ tcRet' = r.ret
           /\ tcLog' = r.log
           /\ tcCalls' = 1
           /\ g' = IF r.ret = ZeroDivisionError
                      THEN [g EXCEPT !.pc = "finally", !.ret = "False",
                                     !.regular = regular]
                      ELSE
                    [g EXCEPT !.pc = "opening1",
                             !.regular = regular,
                             !.timings = r.ret,
                             !.metadata = get_image_durations(r.self, regular),
                             !.temp_dir = TRUE,
                             !.sequence_builder = TRUE]
    /\ UNCHANGED << sr, gcfg, calls, disk, selectorVars, overlayVars, kenBurnsVars, windowVars, streamVars >>

\* generate going on after a failed render as if it had succeeded.
RenderStep_continueOnFailure(segment_name, duration, seg_file, next_pc, next_i) ==
    \E run \in GenEngineRuns(duration, sr.fps) :
        LET result == render_segment(sr.fps, duration, run)
        IN  /\ sr' = [sr EXCEPT !.call =
                        RendererCall("render_segment", segment_name, duration, seg_file,
                                     << >>, run, result, run.outcome # "exception")]
            /\ calls' = [calls EXCEPT !.renders = Append(@,
                            [ segment_name |-> segment_name, duration |-> duration,
                              output_file |-> seg_file, overlay_path |-> g.overlay,
                              returned |-> result.returned, ok |-> result.ret ])]
            /\ disk' = IF result.ret THEN disk \cup { seg_file } ELSE disk
            /\ g' = IF ~result.returned THEN [g EXCEPT !.pc = "blocked"]
                    ELSE [g EXCEPT !.segments = Append(@, seg_file),
                                   !.overlay = None,
                                   !.i = next_i,
                                   !.pc = next_pc]

\* generate putting the new segment in front of the list.
RenderStep_prepend(segment_name, duration, seg_file, next_pc, next_i) ==
    \E run \in GenEngineRuns(duration, sr.fps) :
        LET result == render_segment(sr.fps, duration, run)
        IN  /\ sr' = [sr EXCEPT !.call =
                        RendererCall("render_segment", segment_name, duration, seg_file,
                                     << >>, run, result, run.outcome # "exception")]
            /\ calls' = [calls EXCEPT !.renders = Append(@,
                            [ segment_name |-> segment_name, duration |-> duration,
                              output_file |-> seg_file, overlay_path |-> g.overlay,
                              returned |-> result.returned, ok |-> result.ret ])]
            /\ disk' = IF result.ret THEN disk \cup { seg_file } ELSE disk
            /\ g' = IF ~result.returned THEN [g EXCEPT !.pc = "blocked"]
                    ELSE IF result.ret
                      THEN [g EXCEPT !.segments = << seg_file >> \o @,
                                     !.overlay = None,
                                     !.i = next_i,
                                     !.pc = next_pc]
                      ELSE [g EXCEPT !.pc = "finally", !.ret = "False"]

\* A render_segment call of generate: the engine runs, the call is recorded,
\* the segment file exists after a successful run (a run that exits with an
\* error may leave a partial file) and is appended to segments; a failed
\* render returns False from generate; a call that never returns leaves
\* generate blocked in it.
RenderStep(segment_name, duration, seg_file, next_pc, next_i) ==
    \E run \in GenEngineRuns(duration, sr.fps), partial \in BOOLEAN :
        LET result == render_segment(sr.fps, duration, run)
        IN  /\ partial => run.outcome = "exit1"
            /\ sr' = [sr EXCEPT !.call =
                        RendererCall("render_segment", segment_name, duration, seg_file,
                                     << >>, run, result, run.outcome # "exception")]
            /\ calls' = [calls EXCEPT !.renders = Append(@,
                            [ segment_name |-> segment_name, duration |-> duration,
                              output_file |-> seg_file, overlay_path |-> g.overlay,
                              returned |-> result.returned, ok |-> result.ret ])]
            /\ disk' = IF result.ret \/ partial THEN disk \cup { seg_file } ELSE disk
            /\ g' = IF ~result.returned THEN [g EXCEPT !.pc = "blocked"]
                    ELSE IF result.ret
                      THEN [g EXCEPT !.segments = Append(@, seg_file),
                                     !.overlay = None,
                                     !.i = next_i,
                                     !.pc = next_pc]
                      ELSE [g EXCEPT !.pc = "finally", !.ret = "False"]

\* create_text_file for the texts of a sequence
text_files_of(call, count) == [ j \in 1..count |-> << "txt", Len(call.temp_text_files) + j >> ]

\* _get_transition_overlay storing the overlay path whatever
\* generate_overlay_video returned.
GetTransitionOverlay_cacheFailed(duration, segment_position, new_text_files, next_pc) ==
    \E k \in 1..Min(MaxChoice, Len(CONCRETE_TYPES)) :
        LET active_windows ==
                active_windows_of(duration, segment_position, gcfg.transition_duration)
            generator == IF pgen.is_random_mode THEN randomize_type(pgen, k) ELSE pgen
            cache_key == get_cache_key(generator, duration, active_windows)
            overlay_file == << "overlay", cache_key >>
            lookup == [ particle_type |-> generator.particle_type,
                        density |-> generator.density,
                        size_multiplier |-> generator.size_multiplier,
                        duration |-> duration,
                        resolution |-> << generator.width, generator.height >>,
                        active_windows |-> active_windows ]
            base == [g EXCEPT !.temp_text_files = @ \o new_text_files, !.pc = next_pc]
        IN  /\ (~pgen.is_random_mode) => k = 1
            /\ pgen' = generator
            /\ IF cache_key \in cache_keys(g.overlay_cache)
                 THEN /\ g' = [base EXCEPT !.overlay = cache_get(g.overlay_cache, cache_key)]
                      /\ calls' = [calls EXCEPT !.lookups = Append(@,
                            [ in |-> lookup, cache_key |-> cache_key, hit |-> TRUE,
                              result |-> cache_get(g.overlay_cache, cache_key) ])]
                      /\ disk' = disk \cup Elems(new_text_files)
                 ELSE \E ok \in generate_overlay_video_results(generator, duration),
                         partial \in BOOLEAN :
                      /\ partial => (~ok /\ generator.PIL_AVAILABLE)
                      /\ g' = [base EXCEPT
                            !.overlay_cache = cache_store(@, cache_key, overlay_file),
                            !.overlay = IF ok THEN overlay_file ELSE None]
                      /\ calls' = [calls EXCEPT
                            !.lookups = Append(@,
                                [ in |-> lookup, cache_key |-> cache_key, hit |-> FALSE,
                                  result |-> IF ok THEN overlay_file ELSE None ]),
                            !.simulations = Append(@,
                                [ cache_key |-> cache_key, duration |-> duration,
                                  output_path |-> overlay_file, ok |-> ok ])]
                      /\ disk' = (IF ok \/ partial THEN disk \cup { overlay_file } ELSE disk)
                                 \cup Elems(new_text_files)

\* SlideshowGenerator._get_transition_overlay (lines 296-329) called for the
\* segment at hand, after the sequence's text files were written; the overlay
\* path or None is kept for the render. A generation that fails in the
\* encoder may leave a partial overlay file.
GetTransitionOverlay(duration, segment_position, new_text_files, next_pc) ==
    \E k \in 1..Min(MaxChoice, Len(CONCRETE_TYPES)) :
        LET active_windows ==
                active_windows_of(duration, segment_position, gcfg.transition_duration)
            generator == IF pgen.is_random_mode THEN randomize_type(pgen, k) ELSE pgen
            cache_key == get_cache_key(generator, duration, active_windows)
            overlay_file == << "overlay", cache_key >>
            lookup == [ particle_type |-> generator.particle_type,
                        density |-> generator.density,
                        size_multiplier |-> generator.size_multiplier,
                        duration |-> duration,
                        resolution |-> << generator.width, generator.height >>,
                        active_windows |-> active_windows ]
            base == [g EXCEPT !.temp_text_files = @ \o new_text_files, !.pc = next_pc]
        IN  /\ (~pgen.is_random_mode) => k = 1
            /\ pgen' = generator
            /\ IF cache_key \in cache_keys(g.overlay_cache)
                 THEN /\ g' = [base EXCEPT !.overlay = cache_get(g.overlay_cache, cache_key)]
                      /\ calls' = [calls EXCEPT !.lookups = Append(@,
                            [ in |-> lookup, cache_key |-> cache_key, hit |-> TRUE,
                              result |-> cache_get(g.overlay_cache, cache_key) ])]
                      /\ disk' = disk \cup Elems(new_text_files)
                 ELSE \E ok \in generate_overlay_video_results(generator, duration),
                         partial \in BOOLEAN :
                      /\ partial => (~ok /\ generator.PIL_AVAILABLE)
                      /\ g' = [base EXCEPT
                            !.overlay_cache = IF ok THEN cache_store(@, cache_key, overlay_file)
                                                    ELSE @,
                            !.overlay = IF ok THEN overlay_file ELSE None]
                      /\ calls' = [calls EXCEPT
                            !.lookups = Append(@,
                                [ in |-> lookup, cache_key |-> cache_key, hit |-> FALSE,
                                  result |-> IF ok THEN overlay_file ELSE None ]),
                            !.simulations = Append(@,
                                [ cache_key |-> cache_key, duration |-> duration,
                                  output_path |-> overlay_file, ok |-> ok ])]
                      /\ disk' = (IF ok \/ partial THEN disk \cup { overlay_file } ELSE disk)
                                 \cup Elems(new_text_files)

\* No overlay is requested for the segment at hand.
NoOverlay(new_text_files, next_pc) ==
    /\ g' = [g EXCEPT !.temp_text_files = @ \o new_text_files,
                      !.overlay = None, !.pc = next_pc]
    /\ disk' = disk \cup Elems(new_text_files)
    /\ UNCHANGED << pgen, calls >>

\* Lines 150-171
gen_opening1 ==
    /\ g # NoObject /\ g.pc = "opening1"
    /\ RenderStep(<< "Opening-1" >>, g.timings.opening_part1, << "seg", 0, "opening1" >>,
                  "opening2_overlay", g.i)
    /\ UNCHANGED << gcfg, timingVars, selectorVars, overlayVars, kenBurnsVars, windowVars, streamVars >>

\* Lines 173-183: the opening text file is written and the overlay of opening
\* part 2 decided.
gen_opening2_overlay ==
    /\ g # NoObject /\ g.pc = "opening2_overlay"
    /\ LET texts == text_files_of(g, IF gcfg.text_opening_enabled THEN 1 ELSE 0)
       IN  IF pgen.enabled /\ pgen.apply_to_opening
             THEN GetTransitionOverlay(g.timings.opening_part2, "opening", texts, "opening2")
             ELSE NoOverlay(texts, "opening2")
    /\ UNCHANGED << sr, gcfg, timingVars, selectorVars, ov, pipe, kenBurnsVars, windowVars, streamVars >>

\* Lines 185-198; the loop over the images is entered, or skipped when there
\* is no regular image.
gen_opening2 ==
    /\ g # NoObject /\ g.pc = "opening2"
    /\ RenderStep(<< "Opening-2" >>, g.timings.opening_part2, << "seg", 1, "opening2" >>,
                  IF Len(g.metadata) >= 1 THEN "image_overlay" ELSE "closing_overlay", 1)
    /\ UNCHANGED << gcfg, timingVars, selectorVars, overlayVars, kenBurnsVars, windowVars, streamVars >>

\* Lines 199-208: the overlay of image i is decided.
gen_image_overlay ==
    /\ g # NoObject /\ g.pc = "image_overlay"
    /\ \E apply \in should_apply(pgen) :
          IF apply
            THEN GetTransitionOverlay(g.metadata[g.i], "middle", << >>, "image")
            ELSE NoOverlay(<< >>, "image")
    /\ UNCHANGED << sr, gcfg, timingVars, selectorVars, ov, pipe, kenBurnsVars, windowVars, streamVars >>

\* Lines 210-218: image i is rendered and the loop goes on or ends.
gen_image ==
    /\ g # NoObject /\ g.pc = "image"
    /\ RenderStep(<< "Image", g.i >>, g.metadata[g.i], << "seg", g.i + 1, "image", g.i >>,
                  IF g.i < Len(g.metadata) THEN "image_overlay" ELSE "closing_overlay",
                  g.i + 1)
    /\ UNCHANGED << gcfg, timingVars, selectorVars, overlayVars, kenBurnsVars, windowVars, streamVars >>

\* Lines 220-230: the closing text files are written and the overlay of the
\* closing decided.
gen_closing_overlay ==
    /\ g # NoObject /\ g.pc = "closing_overlay"
    /\ LET texts == text_files_of(g, gcfg.text_closing_texts)
       IN  IF pgen.enabled /\ pgen.apply_to_closing
             THEN GetTransitionOverlay(g.timings.closing, "closing", texts, "closing")
             ELSE NoOverlay(texts, "closing")
    /\ UNCHANGED << sr, gcfg, timingVars, selectorVars, ov, pipe, kenBurnsVars, windowVars, streamVars >>

\* Lines 232-240
gen_closing ==
    /\ g # NoObject /\ g.pc = "closing"
    /\ RenderStep(<< "Closing" >>, g.timings.closing, << "seg", Len(g.segments), "closing" >>,
                  "concat", g.i)
    /\ UNCHANGED << gcfg, timingVars, selectorVars, overlayVars, kenBurnsVars, windowVars, streamVars >>

\* Lines 242-263: the segments are concatenated with the audio and the result
\* is returned.
gen_concat ==
    /\ g # NoObject /\ g.pc = "concat"
    /\ \E outcome \in EngineOutcomes :
          LET result == concatenate_segments(g.segments, outcome)
              run == [ outcome |-> outcome, frame_count |-> 0, actual_duration |-> R(0) ]
          IN  /\ sr' = [sr EXCEPT !.call =
                          RendererCall("concatenate_segments", << "concat" >>, R(0),
                                       << "output" >>, g.segments, run, result,
                                       result.engine_invoked)]
              /\ calls' = [calls EXCEPT !.concats = Append(@,
                              [ segments |-> g.segments, returned |-> result.returned,
                                ok |-> result.ret ])]
              /\ disk' = IF result.ret THEN disk \cup { << "output" >> } ELSE disk
              /\ g' = IF ~result.returned THEN [g EXCEPT !.pc = "blocked"]
                      ELSE [g EXCEPT !.pc = "finally",
                                     !.ret = IF result.ret THEN "True" ELSE "False"]
    /\ UNCHANGED << gcfg, timingVars, selectorVars, overlayVars, kenBurnsVars, windowVars, streamVars >>

\* Lines 265-267 and an interrupt: a step inside the try block raises; an
\* Exception makes generate return False, an interrupt is not caught. Before
\* line 134 neither the temp directory nor the sequence builder exists.
gen_raise ==
    /\ g # NoObject
    /\ g.pc \in { "timings", "opening1", "opening2_overlay", "opening2", "image_overlay",
                  "image", "closing_overlay", "closing", "concat" }
    /\ \E raised \in { "Exception", "KeyboardInterrupt" } :
          g' = [g EXCEPT !.pc = "finally",
                         !.ret = IF raised = "Exception" THEN "False" ELSE raised]
    /\ UNCHANGED << sr, gcfg, calls, disk, timingVars, selectorVars, overlayVars, kenBurnsVars, windowVars, streamVars >>

\* cleanup_temp_files clearing the tracking list without removing the files.
cleanup_temp_files_onlyClear(call, files, removed) ==
    [ temp_text_files |-> << >>, disk |-> files ]

\* SequenceBuilder.cleanup_temp_files: every tracked file is removed unless
\* its removal fails, and the tracking list is cleared.
cleanup_temp_files(call, files, removed) ==
    [ temp_text_files |-> << >>,
      disk |-> files \ (Elems(call.temp_text_files) \cap removed) ]

\* Lines 269-280: the finally block; the removal of a text file or of the
\* temp directory can fail.
gen_finally ==
    /\ g # NoObject /\ g.pc = "finally"
    /\ \E text_removed \in BOOLEAN, rmtree_ok \in BOOLEAN :
          LET after_text == IF g.sequence_builder
                              THEN cleanup_temp_files(g, disk,
                                      IF text_removed THEN disk ELSE {})
                              ELSE [ temp_text_files |-> g.temp_text_files, disk |-> disk ]
              in_temp_dir == { f \in after_text.disk : f[1] \in { "seg", "overlay" } }
          IN  /\ (~g.sequence_builder \/ g.temp_text_files = << >>) => text_removed
              /\ (~g.temp_dir) => rmtree_ok
              /\ g' = [g EXCEPT !.pc = "done",
                                !.temp_text_files = after_text.temp_text_files,
                                !.temp_dir = g.temp_dir /\ ~rmtree_ok,
                                !.cleanup = [ ran |-> TRUE,
                                              text_failed |-> ~text_removed,
                                              rmtree_failed |-> ~rmtree_ok ]]
              /\ disk' = IF g.temp_dir /\ rmtree_ok
                           THEN after_text.disk \ in_temp_dir
                           ELSE after_text.disk
    /\ UNCHANGED << sr, gcfg, calls, timingVars, selectorVars, overlayVars, kenBurnsVars, windowVars, streamVars >>

NextGenerate ==
    \/ gen_validate
    \/ gen_timings
    \/ gen_opening1
    \/ gen_opening2_overlay
    \/ gen_opening2
    \/ gen_image_overlay
    \/ gen_image
    \/ gen_closing_overlay
    \/ gen_closing
    \/ gen_concat
    \/ gen_raise
    \/ gen_finally

SpecGenerate == InitGenerate /\ [][NextGenerate]_vars

(***************************************************************************)
(* SegmentRenderer called on its own                                       *)
(***************************************************************************)
RenderDurations == { Rat(1, 4), R(3), R(6), Rat(15, 2) }
RendererFps == { 24, 30 }
SegmentLists ==
    { << >>, << << "seg", 0, "opening1" >> >>,
      << << "seg", 0, "opening1" >>, << "seg", 1, "opening2" >> >> }

\* A SegmentRenderer is constructed; no generation is running.
InitRenderer ==
    /\ \E fps \in RendererFps : sr = [ fps |-> fps, call |-> NoObject ]
    /\ gcfg = NoObject
    /\ g = NoObject
    /\ calls = NoObject
    /\ disk = {}
    /\ TimingIdle
    /\ SelectorIdle
    /\ OverlayIdle
    /\ KenBurnsIdle
    /\ WindowsIdle
    /\ StreamIdle

\* SegmentRenderer.render_segment called with a duration, on some run of the
\* engine.
render_segment_call ==
    /\ sr # NoObject /\ g = NoObject
    /\ IF sr.call = NoObject THEN TRUE ELSE sr.call.returned
    /\ \E duration \in RenderDurations :
       \E run \in EngineRuns(duration, sr.fps) :
          LET result == render_segment(sr.fps, duration, run)
          IN  sr' = [sr EXCEPT !.call =
                        RendererCall("render_segment", << "Segment" >>, duration,
                                     << "seg", 0, "opening1" >>, << >>, run, result,
                                     run.outcome # "exception")]
    /\ UNCHANGED << timingVars, selectorVars, overlayVars, generateVars, kenBurnsVars, windowVars, streamVars >>

\* SegmentRenderer.concatenate_segments called with a list of segments, on
\* some run of the engine.
concatenate_segments_call ==
    /\ sr # NoObject /\ g = NoObject
    /\ IF sr.call = NoObject THEN TRUE ELSE sr.call.returned
    /\ \E segments \in SegmentLists, outcome \in EngineOutcomes :
          LET result == concatenate_segments(segments, outcome)
              run == [ outcome |-> outcome, frame_count |-> 0, actual_duration |-> R(0) ]
          IN  sr' = [sr EXCEPT !.call =
                        RendererCall("concatenate_segments", << "concat" >>, R(0),
                                     << "output" >>, segments, run, result,
                                     result.engine_invoked)]
    /\ UNCHANGED << timingVars, selectorVars, overlayVars, generateVars, kenBurnsVars, windowVars, streamVars >>

NextRenderer ==
    \/ render_segment_call
    \/ concatenate_segments_call

SpecRenderer == InitRenderer /\ [][NextRenderer]_vars

\* The renderer used by a generation run or called on its own.
InitSegments == InitGenerate \/ InitRenderer
NextSegments == NextGenerate \/ NextRenderer
SpecSegments == InitSegments /\ [][NextSegments]_vars

(***************************************************************************)
(* KenBurnsGenerator                                                       *)
(***************************************************************************)
\* class KenBurnsType, in declaration order
KenBurnsType ==
    << "zoom_in", "zoom_out", "pan_left", "pan_right", "pan_up", "pan_down",
       "diagonal" >>

\* class EasingFunction
EasingFunction == { "linear", "ease_in", "ease_out", "ease_in_out" }

\* The effect_config dictionaries a generator is constructed with: the
\* default zoom range and pan amount, a fixed zoom, a larger range, a range
\* that starts below 1.0, and no pan.
EffectConfigs ==
    [ application_rate : { R(0), Rat(13, 20), R(1) },
      zoom_range : { << R(1), Rat(27, 25) >>, << R(1), R(1) >>,
                     << Rat(6, 5), Rat(3, 2) >>, << Rat(9, 10), R(1) >> },
      pan_amount : { R(0), Rat(3, 50) },
      speed_variations : { << Rat(7, 10), Rat(17, 20), R(1) >> } ]

\* KenBurnsGenerator.__init__
InitKenBurns ==
    /\ \E effect_config \in EffectConfigs :
          kb = [ application_rate |-> effect_config.application_rate,
                 zoom_range |-> effect_config.zoom_range,
                 pan_amount |-> effect_config.pan_amount,
                 speed_variations |-> effect_config.speed_variations,
                 stats |-> [ effect \in Elems(KenBurnsType) \cup { "none" } |-> 0 ],
                 calls |-> 0,
                 ret |-> None ]
    /\ TimingIdle
    /\ SelectorIdle
    /\ OverlayIdle
    /\ GenerateIdle
    /\ RendererIdle
    /\ WindowsIdle
    /\ StreamIdle

\* KenBurnsGenerator.should_apply: random.random() < application_rate, for
\* random.random() anywhere in [0, 1).
kb_should_apply(application_rate) ==
    { b \in BOOLEAN : IF b THEN RLt(R(0), application_rate)
                           ELSE RLt(application_rate, R(1)) }

\* _select_effect_type: the effects random.choices can return (all weights
\* are positive).
_select_effect_type(is_portrait) ==
    IF is_portrait
      THEN { "zoom_in", "zoom_out", "pan_up", "pan_down" }
      ELSE Elems(KenBurnsType)

\* _select_easing: the easings random.choices can return.
_select_easing == { "ease_in_out", "ease_out", "ease_in", "linear" }

RNeg(x) == << -x[1], x[2] >>

_generate_config_noZoomOffset(self, effect_type, easing, speed_multiplier, choice_x, choice_y) ==
    LET zoom_min == self.zoom_range[1]
        zoom_max == self.zoom_range[2]
        config == [ zoom_start |-> R(1), zoom_end |-> R(1), pan_x |-> R(0),
                    pan_y |-> R(0), effect_type |-> effect_type,
                    easing |-> easing, speed_multiplier |-> speed_multiplier ]
    IN  CASE effect_type = "zoom_in" ->
                [config EXCEPT !.zoom_start = zoom_min, !.zoom_end = zoom_max]
          [] effect_type = "zoom_out" ->
                [config EXCEPT !.zoom_start = zoom_max, !.zoom_end = zoom_min]
          [] effect_type = "pan_left" ->
                [config EXCEPT !.zoom_start = zoom_min, !.zoom_end = zoom_min,
                               !.pan_x = RNeg(self.pan_amount)]
          [] effect_type = "pan_right" ->
                [config EXCEPT !.zoom_start = zoom_min, !.zoom_end = zoom_min,
                               !.pan_x = self.pan_amount]
          [] effect_type = "pan_up" ->
                [config EXCEPT !.zoom_start = zoom_min, !.zoom_end = zoom_min,
                               !.pan_y = RNeg(self.pan_amount)]
          [] effect_type = "pan_down" ->
                [config EXCEPT !.zoom_start = zoom_min, !.zoom_end = zoom_min,
                               !.pan_y = self.pan_amount]
          [] effect_type = "diagonal" ->
                [config EXCEPT !.zoom_start = zoom_min, !.zoom_end = zoom_max,
                               !.pan_x = RMul(choice_x, RMul(self.pan_amount, Rat(1, 2))),
                               !.pan_y = RMul(choice_y, RMul(self.pan_amount, Rat(1, 2)))]

\* _generate_config; easing and speed_multiplier are the values drawn by
\* _select_easing and random.choice(speed_variations), choice_x and choice_y
\* (1 or -1) the signs drawn by the two random.choice calls of DIAGONAL.
_generate_config(self, effect_type, easing, speed_multiplier, choice_x, choice_y) ==
    LET zoom_min == self.zoom_range[1]
        zoom_max == self.zoom_range[2]
        config == [ zoom_start |-> R(1), zoom_end |-> R(1), pan_x |-> R(0),
                    pan_y |-> R(0), effect_type |-> effect_type,
                    easing |-> easing, speed_multiplier |-> speed_multiplier ]
    IN  CASE effect_type = "zoom_in" ->
                [config EXCEPT !.zoom_start = zoom_min, !.zoom_end = zoom_max]
          [] effect_type = "zoom_out" ->
                [config EXCEPT !.zoom_start = zoom_max, !.zoom_end = zoom_min]
          [] effect_type = "pan_left" ->
                [config EXCEPT !.zoom_start = RAdd(zoom_min, Rat(1, 50)),
                               !.zoom_end = RAdd(zoom_min, Rat(1, 50)),
                               !.pan_x = RNeg(self.pan_amount)]
          [] effect_type = "pan_right" ->
                [config EXCEPT !.zoom_start = RAdd(zoom_min, Rat(1, 50)),
                               !.zoom_end = RAdd(zoom_min, Rat(1, 50)),
                               !.pan_x = self.pan_amount]
          [] effect_type = "pan_up" ->
                [config EXCEPT !.zoom_start = RAdd(zoom_min, Rat(1, 50)),
                               !.zoom_end = RAdd(zoom_min, Rat(1, 50)),
                               !.pan_y = RNeg(self.pan_amount)]
          [] effect_type = "pan_down" ->
                [config EXCEPT !.zoom_start = RAdd(zoom_min, Rat(1, 50)),
                               !.zoom_end = RAdd(zoom_min, Rat(1, 50)),
                               !.pan_y = self.pan_amount]
          [] effect_type = "diagonal" ->
                [config EXCEPT !.zoom_start = zoom_min, !.zoom_end = zoom_max,
                               !.pan_x = RMul(choice_x, RMul(self.pan_amount, Rat(1, 2))),
                               !.pan_y = RMul(choice_y, RMul(self.pan_amount, Rat(1, 2)))]

\* The signs random.choice can draw for a pan component; only DIAGONAL draws.
DiagonalChoices(effect_type) ==
    IF effect_type = "diagonal" THEN { R(-1), R(1) } ELSE { R(1) }

\* KenBurnsGenerator.generate_effect
generate_effect ==
    /\ kb # NoObject /\ kb.calls < MaxEffects
    /\ \E is_portrait \in BOOLEAN, apply \in kb_should_apply(kb.application_rate) :
          IF ~apply
            THEN kb' = [kb EXCEPT !.stats["none"] = @ + 1, !.calls = @ + 1,
                                  !.ret = None]
            ELSE \E effect_type \in _select_effect_type(is_portrait),
                    easing \in _select_easing,
                    speed_multiplier \in Elems(kb.speed_variations) :
                 \E choice_x \in DiagonalChoices(effect_type),
                    choice_y \in DiagonalChoices(effect_type) :
                    kb' = [kb EXCEPT !.stats[effect_type] = @ + 1,
                                     !.calls = @ + 1,
                                     !.ret = _generate_config(kb, effect_type, easing,
                                                 speed_multiplier, choice_x, choice_y)]
    /\ UNCHANGED << timingVars, selectorVars, overlayVars, generateVars, rendererVars, windowVars, streamVars >>

NextKenBurns == generate_effect

SpecKenBurns == InitKenBurns /\ [][NextKenBurns]_vars

(***************************************************************************)
(* Active windows of a transition overlay                                  *)
(***************************************************************************)
\* Segment durations and transition durations _get_transition_overlay is
\* called with: zero, shorter than, equal to and longer than twice the
\* transition.
WindowDurations ==
    { R(0), Rat(1, 2), R(1), Rat(3, 2), Rat(9, 5), R(2), R(3), R(6) }
TransitionDurations == { R(0), Rat(1, 2), Rat(9, 10), R(1), R(3) }
SegmentPositions == { "opening", "closing", "middle" }

InitWindows ==
    /\ \E duration \in WindowDurations, td \in TransitionDurations,
          segment_position \in SegmentPositions :
          aw = [ duration |-> duration, td |-> td,
                 segment_position |-> segment_position,
                 active_windows |-> None ]
    /\ TimingIdle
    /\ SelectorIdle
    /\ OverlayIdle
    /\ GenerateIdle
    /\ RendererIdle
    /\ KenBurnsIdle
    /\ StreamIdle

\* Lines 296-312 of _get_transition_overlay: the windows are computed.
compute_active_windows ==
    /\ aw # NoObject
    /\ aw.active_windows = None
    /\ aw' = [aw EXCEPT !.active_windows =
                active_windows_of(aw.duration, aw.segment_position, aw.td)]
    /\ UNCHANGED << timingVars, selectorVars, overlayVars, generateVars, rendererVars,
                    kenBurnsVars, streamVars >>

NextWindows == compute_active_windows

SpecWindows == InitWindows /\ [][NextWindows]_vars

(***************************************************************************)
(* Streaming of the overlay frames to the encoder process                  *)
(***************************************************************************)
\* Frames the stdin pipe of the encoder holds before a write blocks, and
\* messages its stderr pipe holds before the encoder's write blocks.
StdinCapacity == 1
StderrCapacity == 1

\* The state after subprocess.Popen (lines 209-212): the loop is at frame 0,
\* the pipes are empty, the encoder runs. An encoder may write a diagnostic
\* after reading a frame (chatty) or never. The platform decides which
\* Popen._communicate runs at line 257.
InitStream ==
    /\ \E total_frames \in 1..MaxStreamFrames, chatty \in BOOLEAN,
          platform \in { "win32", "posix" } :
          stream = [ pc |-> "produce",
                     platform |-> platform,
                     total_frames |-> total_frames,
                     frame_num |-> 0,
                     held |-> 0,
                     produced |-> 0,
                     written |-> 0,
                     stdin_pipe |-> 0,
                     stdin_closed |-> FALSE,
                     stderr_pipe |-> 0,
                     stderr_read |-> 0,
                     chatty |-> chatty,
                     encoder |-> "running",
                     pending_diag |-> 0,
                     returncode |-> None,
                     ret |-> None ]
    /\ TimingIdle
    /\ SelectorIdle
    /\ OverlayIdle
    /\ GenerateIdle
    /\ RendererIdle
    /\ KenBurnsIdle
    /\ WindowsIdle

StreamUnchanged ==
    UNCHANGED << timingVars, selectorVars, overlayVars, generateVars, rendererVars,
                 kenBurnsVars, windowVars >>

\* A producer that computes the next frame while the write of the last one
\* has not returned.
stream_produce_ahead ==
    /\ stream # NoObject
    /\ stream.pc \in { "produce", "write" }
    /\ stream.produced < stream.total_frames
    /\ stream' = [stream EXCEPT !.held = @ + 1, !.produced = @ + 1, !.pc = "write"]
    /\ StreamUnchanged

\* Lines 222-253: the frame of the iteration is computed (the transparent
\* buffer, or the pool updated and rendered).
stream_produce ==
    /\ stream # NoObject
    /\ stream.pc = "produce"
    /\ stream.frame_num < stream.total_frames
    /\ stream' = [stream EXCEPT !.held = @ + 1, !.produced = @ + 1, !.pc = "write"]
    /\ StreamUnchanged

\* process.stdin.write (lines 237, 254): returns once the pipe has taken the
\* frame, which it does while it has room; raises BrokenPipeError, caught at
\* line 266, when the encoder has exited. With a full pipe and a running
\* encoder the call stays blocked.
stream_write ==
    /\ stream # NoObject
    /\ stream.pc = "write"
    /\ IF stream.encoder = "exited"
         THEN stream' = [stream EXCEPT !.pc = "returned", !.held = 0, !.ret = FALSE]
         ELSE /\ stream.stdin_pipe < StdinCapacity
              /\ stream' = [stream EXCEPT
                    !.stdin_pipe = @ + 1,
                    !.held = @ - 1,
                    !.written = @ + 1,
                    !.frame_num = @ + 1,
                    !.pc = IF stream.frame_num + 1 < stream.total_frames
                             THEN "produce" ELSE "close"]
    /\ StreamUnchanged

\* process.stdin.close() (line 256)
stream_close ==
    /\ stream # NoObject
    /\ stream.pc = "close"
    /\ stream' = [stream EXCEPT !.stdin_closed = TRUE, !.pc = "communicate"]
    /\ StreamUnchanged

\* process.communicate(timeout=120) (line 257) reads what the encoder wrote
\* to stderr.
stream_communicate_read ==
    /\ stream # NoObject
    /\ stream.pc = "communicate"
    /\ stream.platform = "win32"
    /\ stream.stderr_pipe > 0
    /\ stream' = [stream EXCEPT !.stderr_read = @ + stream.stderr_pipe,
                                !.stderr_pipe = 0]
    /\ StreamUnchanged

\* communicate returns after the encoder's exit (lines 259-264), or raises
\* TimeoutExpired, caught at line 266, while the encoder still runs. The
\* POSIX communicate first flushes stdin, which line 256 has closed: the
\* ValueError is caught at line 266.
stream_communicate_return ==
    /\ stream # NoObject
    /\ stream.pc = "communicate"
    /\ stream' = IF stream.platform = "win32" /\ stream.encoder = "exited"
                   THEN [stream EXCEPT !.pc = "returned",
                                       !.ret = (stream.returncode = 0)]
                   ELSE [stream EXCEPT !.pc = "returned", !.ret = FALSE]
    /\ StreamUnchanged

\* The encoder reads a frame from its stdin; a chatty one may have a
\* diagnostic to write before it reads on.
encoder_read ==
    /\ stream # NoObject
    /\ stream.encoder = "running"
    /\ stream.pending_diag = 0
    /\ stream.stdin_pipe > 0
    /\ \E diag \in (IF stream.chatty THEN {0, 1} ELSE {0}) :
          stream' = [stream EXCEPT !.stdin_pipe = @ - 1, !.pending_diag = diag]
    /\ StreamUnchanged

\* The encoder writes the diagnostic to its stderr pipe, which takes it while
\* it has room; with a full pipe the encoder stays blocked in the write.
encoder_diagnostic ==
    /\ stream # NoObject
    /\ stream.encoder = "running"
    /\ stream.pending_diag = 1
    /\ stream.stderr_pipe < StderrCapacity
    /\ stream' = [stream EXCEPT !.stderr_pipe = @ + 1, !.pending_diag = 0]
    /\ StreamUnchanged

\* The encoder exits: with status 0 once its stdin is closed and read to the
\* end, or with another status at any frame it fails on.
encoder_exit ==
    /\ stream # NoObject
    /\ stream.encoder = "running"
    /\ stream.pending_diag = 0
    /\ \E returncode \in {0, 1} :
          /\ returncode = 0 => (stream.stdin_closed /\ stream.stdin_pipe = 0)
          /\ stream' = [stream EXCEPT !.encoder = "exited", !.returncode = returncode]
    /\ StreamUnchanged

NextStream ==
    \/ stream_produce
    \/ stream_write
    \/ stream_close
    \/ stream_communicate_read
    \/ stream_communicate_return
    \/ encoder_read
    \/ encoder_diagnostic
    \/ encoder_exit

SpecStream == InitStream /\ [][NextStream]_vars

(***************************************************************************)
(* Properties of the TimingCalculator                                      *)
(***************************************************************************)
\* The inputs of the calculator as configured, and the quantities the
\* reconciliation is described with.
CfgD0 == tc.timing_config.duration_per_image
CfgFixed == RAdd(tc.OPENING_PART1_DURATION, tc.OPENING_PART2_DURATION)
NaiveClosing == RSub(RSub(tc.audio_duration, CfgFixed), RMul(R(tcN), CfgD0))
Available == RSub(RSub(tc.audio_duration, CfgFixed), tc.MIN_CLOSING_DURATION)
Called == tc # NoObject /\ tcCalls > 0 /\ tcN >= 1
FirstCall == tc # NoObject /\ tcCalls = 1 /\ tcN >= 1

\* C1: after every calculate_timings(n) with n >= 1, either the returned total
\* a1 + a2 + n*image_duration + closing is within 0.1 s of the audio duration,
\* or the 'Cannot fit all segments' error branch was taken.
C1_TotalMatchesAudioOrInfeasible ==
    Called =>
        \/ /\ tcRet.total_video =
                RAdd(RAdd(CfgFixed, RMul(R(tcN), tcRet.image_duration)), tcRet.closing)
           /\ RLe(RAbs(RSub(tcRet.total_video, tc.audio_duration)), Rat(1, 10))
        \/ "error" \in tcLog

\* A call that had to reduce the image duration and whose total is the audio
\* duration.
C1_Witness ==
    /\ Called
    /\ "info" \in tcLog
    /\ "error" \notin tcLog
    /\ tcRet.total_video = tc.audio_duration

\* C2: the first call on a calculator returns (d0, C0) when C0 >= Cmin and
\* ((T - a1 - a2 - Cmin)/n, Cmin) when C0 < Cmin and T - a1 - a2 - Cmin > 0;
\* the scenario T=60 gives d=6, C=9 and the scenario T=40 gives n*d=23, C=8
\* (a1=3, a2=6, Cmin=8, n=7, d0=6 in both).
C2_Scenario(T) ==
    /\ tc.audio_duration = R(T)
    /\ tc.OPENING_PART1_DURATION = R(3)
    /\ tc.OPENING_PART2_DURATION = R(6)
    /\ tc.MIN_CLOSING_DURATION = R(8)
    /\ CfgD0 = R(6)
    /\ tcN = 7

C2_AgreesWithReference ==
    FirstCall =>
        /\ ~RLt(NaiveClosing, tc.MIN_CLOSING_DURATION) =>
              /\ tcRet.image_duration = CfgD0
              /\ tcRet.closing = NaiveClosing
        /\ (RLt(NaiveClosing, tc.MIN_CLOSING_DURATION) /\ RLt(R(0), Available)) =>
              /\ tcRet.image_duration = RDiv(Available, R(tcN))
              /\ tcRet.closing = tc.MIN_CLOSING_DURATION
        /\ C2_Scenario(60) =>
              (tcRet.image_duration = R(6) /\ tcRet.closing = R(9))
        /\ C2_Scenario(40) =>
              /\ RMul(R(7), tcRet.image_duration) = R(23)
              /\ tcRet.regular_images_total = R(23)
              /\ tcRet.closing = R(8)

\* The second scenario has been computed: 7 images of 23/7 s, closing 8 s.
C2_Witness ==
    /\ FirstCall
    /\ C2_Scenario(40)
    /\ tcRet.image_duration = Rat(23, 7)
    /\ tcRet.closing = R(8)

\* C3 as stated: whenever d0*n + a1 + a2 leaves less than Cmin for closing,
\* the returned image duration is below d0 and the closing is not below Cmin.
C3_Original ==
    (FirstCall /\ RLt(NaiveClosing, tc.MIN_CLOSING_DURATION)) =>
        /\ RLt(tcRet.image_duration, CfgD0)
        /\ RLe(tc.MIN_CLOSING_DURATION, tcRet.closing)

\* C3 amended: the returned closing duration is never below Cmin, and when
\* d0*n + a1 + a2 leaves less than Cmin for closing while T - a1 - a2 - Cmin
\* is positive, the returned image duration is below d0.
C3_ReducesWhenFeasible ==
    Called =>
        /\ RLe(tc.MIN_CLOSING_DURATION, tcRet.closing)
        /\ (RLt(NaiveClosing, tc.MIN_CLOSING_DURATION) /\ RLt(R(0), Available)) =>
              RLt(tcRet.image_duration, CfgD0)

\* A first call that reduced the image duration below the nominal one and
\* kept the closing at the minimum.
C3_Witness ==
    /\ FirstCall
    /\ RLt(NaiveClosing, tc.MIN_CLOSING_DURATION)
    /\ RLt(R(0), Available)
    /\ RLt(tcRet.image_duration, CfgD0)
    /\ tcRet.closing = tc.MIN_CLOSING_DURATION


\* C17: calculate_timings never divides by zero: called with n = 0 it returns
\* a timings dictionary without raising, whatever T, a1, a2, Cmin and d0 are.
C17_NoDivisionByZero ==
    (tc # NoObject /\ tcCalls > 0 /\ tcN = 0) =>
        /\ tcRet # ZeroDivisionError
        /\ DOMAIN tcRet = { "opening_part1", "opening_part2", "image_duration",
                            "regular_images_total", "closing", "total_video",
                            "num_images" }
        /\ tcRet.num_images = 0
        /\ tcRet.regular_images_total = R(0)

\* A call with n = 0 whose naive closing is below the minimum closing
\* duration (the branch that holds the division) has returned.
C17_Witness ==
    /\ tc # NoObject /\ tcCalls > 0 /\ tcN = 0
    /\ "warning" \in tcLog
    /\ tcRet # ZeroDivisionError
    /\ tcRet.closing = tc.MIN_CLOSING_DURATION

\* A calculator freshly constructed from the audio duration and the timing
\* configuration of the one in use.
FreshCalculator == TimingCalculator_init(tc.audio_duration, tc.timing_config)

\* C30: the timings returned by calculate_timings(n) are those a fresh
\* calculator returns for n, whatever calls were made on the calculator
\* before.
C30_Original ==
    (tc # NoObject /\ tcCalls >= 1) =>
        tcRet = calculate_timings(FreshCalculator, tcN).ret

(***************************************************************************)
(* Properties of the TransitionSelector                                    *)
(***************************************************************************)
NonZeroCategories ==
    { c \in DOMAIN selector.category_weights : selector.category_weights[c] > 0 }

\* The selection history before the last select_next call.
PriorHistory == SubSeq(selector.history, 1, Len(selector.history) - 1)

\* C5: when the weight table gives at least two categories non-zero weight,
\* no four consecutive entries of the category history are the same category.
C5_NoFourInARow ==
    (selector # NoObject /\ Cardinality(NonZeroCategories) >= 2) =>
        \A i \in 1..(Len(selector.category_history) - 3) :
            ~ /\ selector.category_history[i] = selector.category_history[i + 1]
              /\ selector.category_history[i] = selector.category_history[i + 2]
              /\ selector.category_history[i] = selector.category_history[i + 3]

\* Three selections of one category followed by a selection of another one.
C5_Witness ==
    /\ selector # NoObject
    /\ Cardinality(NonZeroCategories) >= 2
    /\ Len(selector.category_history) = 4
    /\ selector.category_history[1] = selector.category_history[2]
    /\ selector.category_history[2] = selector.category_history[3]
    /\ selector.category_history[4] # selector.category_history[3]

\* C6: when the pool left after excluding the two most recently used names
\* had more than one candidate, the returned name differs from the preceding
\* selection; and a recently used name is returned only in a draw whose
\* filtered pool was empty.
C6_NoImmediateRepeat ==
    (selector # NoObject /\ selLast # NoObject) =>
        /\ (Len(selLast.filtered) > 1 /\ Len(selector.history) >= 2) =>
              selector.history[Len(selector.history)]
                  # selector.history[Len(selector.history) - 1]
        /\ selLast.transition.name \in Elems(LastN(PriorHistory, 2)) =>
              selLast.filtered = << >>
        /\ selLast.transition.name = selector.history[Len(selector.history)]

\* A selection from the category of the preceding selection, whose name was
\* filtered out of a pool that kept more than one candidate.
C6_Witness ==
    /\ selector # NoObject
    /\ selLast # NoObject
    /\ Len(selector.history) >= 2
    /\ Len(selLast.filtered) > 1
    /\ \E t \in Elems(selector.transitions) :
          /\ t.name = selector.history[Len(selector.history) - 1]
          /\ t.category = selLast.transition.category
    /\ selector.history[Len(selector.history)]
          # selector.history[Len(selector.history) - 1]


\* The last select_next call found the three preceding category selections
\* identical.
ForcedSwitch ==
    /\ selector # NoObject
    /\ Len(selector.category_history) >= 4
    /\ LET h == selector.category_history
           n == Len(selector.category_history)
       IN  h[n - 3] = h[n - 2] /\ h[n - 2] = h[n - 1]
RepeatedCategory == selector.category_history[Len(selector.category_history) - 1]
SwitchedTo == selector.category_history[Len(selector.category_history)]
OtherConfigured == DOMAIN selector.category_weights \ { RepeatedCategory }

\* C20 as stated: after three identical category selections the category
\* returned differs from the repeated one and is one of the other categories
\* of the weight table, for every weight table.
C20_Original ==
    ForcedSwitch =>
        /\ SwitchedTo # RepeatedCategory
        /\ SwitchedTo \in OtherConfigured

\* C20: after three identical category selections the category returned
\* differs from the repeated one, for every weight table; it is one of the
\* other categories of the weight table, with non-zero weight, when one of
\* them has non-zero weight, and otherwise any category but the repeated one.
C20_ForcedSwitchLeavesCategory ==
    ForcedSwitch =>
        /\ SwitchedTo # RepeatedCategory
        /\ SwitchedTo \in Categories
        /\ (\E c \in OtherConfigured : selector.category_weights[c] > 0) =>
              /\ SwitchedTo \in OtherConfigured
              /\ selector.category_weights[SwitchedTo] > 0

\* A forced switch to another category of a weight table that holds a
\* zero-weight category as well.
C20_Witness ==
    /\ ForcedSwitch
    /\ SwitchedTo \in OtherConfigured
    /\ \E c \in OtherConfigured : selector.category_weights[c] = 0
    /\ selector.category_weights[SwitchedTo] > 0

\* The weight table given to the constructor held no known category (the
\* defaults are in use; no table of WeightTables equals them), or every
\* weight it holds is zero.
WeightsAbsent == selector.category_weights = DEFAULT_WEIGHTS
WeightsAllZero == \A c \in DOMAIN selector.category_weights : selector.category_weights[c] = 0
SwitchForced ==
    /\ Len(selector.category_history) >= 3
    /\ Cardinality(Elems(LastN(selector.category_history, 3))) = 1

\* C21: with absent or all-zero weights select_next raises in no state of the
\* history (some category and some transition can always be drawn); the
\* category is drawn over all three categories, and over the two others
\* after three selections of one category.
C21_FallbackNeverRaises ==
    (selector # NoObject /\ (WeightsAbsent \/ WeightsAllZero)) =>
        /\ _select_category(selector) # {}
        /\ \A category \in _select_category(selector) :
              select_pool(selector, category).available # << >>
        /\ ~SwitchForced => _select_category(selector) = Categories
        /\ SwitchForced =>
              _select_category(selector)
                  = Categories \ { selector.category_history[Len(selector.category_history)] }
        /\ Elems(selector.category_history) \subseteq Categories

\* A selector with an all-zero table over one category has selected each of
\* the three categories.
C21_Witness ==
    /\ selector # NoObject
    /\ WeightsAllZero
    /\ DOMAIN selector.category_weights = { GENTLE }
    /\ Elems(selector.category_history) = Categories

IsPrefix(a, b) == Len(a) <= Len(b) /\ SubSeq(b, 1, Len(a)) = a

\* C22: after k select_next calls history and category_history both have
\* length k; a select_next call appends one entry to each and leaves the
\* earlier entries as they were; get_statistics, log_summary and
\* should_add_anniversary_overlay leave both lists unchanged.
C22_HistoryAppendOnly ==
    /\ [](selector # NoObject =>
            /\ Len(selector.history) = selOps.select_next
            /\ Len(selector.category_history) = selOps.select_next)
    /\ [][selector # NoObject =>
            /\ IsPrefix(selector.history, selector'.history)
            /\ IsPrefix(selector.category_history, selector'.category_history)
            /\ selOps'.select_next = selOps.select_next + 1 =>
                  /\ Len(selector'.history) = Len(selector.history) + 1
                  /\ Len(selector'.category_history) = Len(selector.category_history) + 1
            /\ selOps'.select_next = selOps.select_next =>
                  /\ selector'.history = selector.history
                  /\ selector'.category_history = selector.category_history]_vars

\* Statistics have been taken after three selections.
C22_Witness ==
    /\ selector # NoObject
    /\ selOps.select_next = 3
    /\ Len(selector.history) = 3
    /\ selOps.last # NoObject
    /\ selOps.last.op = "get_statistics"
    /\ selOps.last.ret.total_transitions = 3

\* C26: the category appended to category_history by a select_next call is
\* the category of the Transition the call returns, in normal and in simple
\* mode.
C26_Original ==
    (selector # NoObject /\ selLast # NoObject) =>
        /\ selector.history[Len(selector.history)] = selLast.transition.name
        /\ selector.category_history[Len(selector.category_history)]
              = selLast.transition.category


(***************************************************************************)
(* Properties of the ParticleOverlayGenerator                              *)
(***************************************************************************)
OverlayReturned == ov # NoObject /\ ov.pc = "returned"
OverlaySucceeded == OverlayReturned /\ ov.ret

\* The frames in the pipe are the frames 0, 1, 2, ... in this order.
InFrameOrder == \A k \in DOMAIN pipe : pipe[k].frame_num = k - 1

InActiveRange(f) ==
    \E i \in DOMAIN ov.active_frame_ranges :
        ov.active_frame_ranges[i][1] <= f /\ f < ov.active_frame_ranges[i][2]

C8_Scenario ==
    /\ pgen.fps = 30
    /\ ov.duration = R(5)
    /\ ov.active_windows = << << R(0), R(1) >>, << R(4), R(5) >> >>

\* C8: with active windows, every frame outside the active frame ranges is the
\* transparent buffer, written without any particle initialisation, update or
\* rendering, and every frame inside a range went through update and render;
\* for 5 s at 30 fps with windows (0,1) and (4,5), frames 0-29 and 120-149 are
\* rendered and frames 30-119 are transparent.
C8_TransparentOutsideWindows ==
    (ov # NoObject /\ ov.active_frame_ranges # None) =>
        /\ \A k \in DOMAIN pipe :
              IF InActiveRange(pipe[k].frame_num)
                THEN pipe[k].kind = "rendered" /\ {"update", "render"} \subseteq pipe[k].ops
                ELSE pipe[k].kind = "transparent" /\ pipe[k].ops = {}
        /\ C8_Scenario =>
              \A k \in DOMAIN pipe :
                  pipe[k].kind = IF k - 1 \in (0..29) \cup (120..149)
                                   THEN "rendered" ELSE "transparent"

\* The scenario has been generated completely.
C8_Witness ==
    /\ OverlaySucceeded
    /\ C8_Scenario
    /\ Len(pipe) = 150
    /\ pipe[30].kind = "rendered"
    /\ pipe[31].kind = "transparent"
    /\ pipe[120].kind = "transparent"
    /\ pipe[121].kind = "rendered"

\* C9: the pool holds exactly particle_count particles after the
\* initialisation and after every update (so every rendered frame was drawn
\* from a pool of that size), and particle_count is int(15 + density*35),
\* between 15 and 50.
C9_PoolSizeInvariant ==
    /\ pgen # NoObject =>
          /\ pgen.particle_count = IntTrunc(RAdd(R(15), RMul(pgen.density, R(35))))
          /\ 15 <= pgen.particle_count /\ pgen.particle_count <= 50
    /\ (ov # NoObject /\ ov.particles # None) =>
          Len(ov.particles) = pgen.particle_count
    /\ \A k \in DOMAIN pipe :
          pipe[k].kind = "rendered" => pipe[k].pool = pgen.particle_count

\* An update has just replaced particles: the pool holds a particle at its
\* full life next to the frames of earlier updates.
C9_Witness ==
    /\ ov # NoObject
    /\ ov.particles # None
    /\ Len(pipe) >= 2
    /\ pipe[Len(pipe)].kind = "rendered"
    /\ "init" \notin pipe[Len(pipe)].ops
    /\ \E i \in DOMAIN ov.particles : ov.particles[i].life = ov.particles[i].max_life
    /\ Len(ov.particles) = pgen.particle_count


\* The frame ranges of the call are in increasing order and disjoint, as the
\* windows of _get_transition_overlay are.
OverlayDisjoint ==
    \/ ov.active_frame_ranges = None
    \/ \A i \in DOMAIN ov.active_frame_ranges, j \in DOMAIN ov.active_frame_ranges :
          i < j => ov.active_frame_ranges[i][2] <= ov.active_frame_ranges[j][1]

\* The frame is the first frame of an active window that holds a frame (of
\* the whole overlay when there are no windows).
IsWindowStart(f) ==
    IF ov.active_frame_ranges = None
      THEN f = 0
      ELSE \E i \in DOMAIN ov.active_frame_ranges :
              /\ ov.active_frame_ranges[i][1] = f
              /\ f < ov.active_frame_ranges[i][2]

\* Length in frames of the window the last rendered frame lies in.
CurrentWindowLength ==
    IF ov.active_frame_ranges = None
      THEN ov.total_frames
      ELSE ov.active_frame_ranges[ov.current_window_idx + 1][2]
              - ov.active_frame_ranges[ov.current_window_idx + 1][1]

InitOnlyAtWindowStart ==
    \A k \in DOMAIN pipe :
        pipe[k].kind = "rendered" =>
            ("init" \in pipe[k].ops <=> IsWindowStart(pipe[k].frame_num))

\* C23 as stated: with disjoint windows the pool is initialised at the first
\* frame of every window and at no other frame, and the particles of the
\* pool have lifetimes scaled to the length of the window they are in
\* (between 0.3 and 0.9 of it; lifetimes are held in tenths of a frame).
C23_Original ==
    (ov # NoObject /\ OverlayDisjoint) =>
        /\ InitOnlyAtWindowStart
        /\ (ov.particles # None /\ ov.active_frame_ranges # None) =>
              \A i \in DOMAIN ov.particles :
                  /\ 3 * CurrentWindowLength <= ov.particles[i].max_life
                  /\ ov.particles[i].max_life <= 9 * CurrentWindowLength

\* C23: with disjoint windows the pool is initialised at the first frame of
\* every window that holds a frame and at no other frame, by
\* _init_particles(window length): every particle of the pool has a lifetime
\* drawn for the window it is in - a fraction of the window's length for
\* hearts (0.5-0.9), petals (0.4-0.8) and confetti (0.3-0.7), and 0.5-1.5
\* seconds whatever the window for sparkles - and has aged only within this
\* window.
C23_FreshPoolPerWindow ==
    (ov # NoObject /\ OverlayDisjoint) =>
        /\ InitOnlyAtWindowStart
        /\ ov.particles # None =>
              \A i \in DOMAIN ov.particles :
                  /\ ov.particles[i].max_life
                        \in Elems(LifeRange(pgen, CurrentWindowLength))
                  /\ pgen.particle_type = HEARTS =>
                        ov.particles[i].max_life
                            \in { 5 * CurrentWindowLength, 9 * CurrentWindowLength }
                  /\ pgen.particle_type = PETALS =>
                        ov.particles[i].max_life
                            \in { 4 * CurrentWindowLength, 8 * CurrentWindowLength }
                  /\ pgen.particle_type = CONFETTI =>
                        ov.particles[i].max_life
                            \in { 3 * CurrentWindowLength, 7 * CurrentWindowLength }
                  /\ pgen.particle_type = SPARKLES =>
                        ov.particles[i].max_life \in { 5 * pgen.fps, 15 * pgen.fps }
                  /\ ov.particles[i].max_life - ov.particles[i].life
                        <= 10 * CurrentWindowLength

\* The two adjacent windows of a short middle segment, one frame each: both
\* frames were rendered from a pool initialised at that frame.
C23_Witness ==
    /\ ov # NoObject
    /\ pgen.particle_type = HEARTS
    /\ ov.active_windows = << << R(0), Rat(1, 2) >>, << Rat(1, 2), R(1) >> >>
    /\ ov.active_frame_ranges = << << 0, 1 >>, << 1, 2 >> >>
    /\ Len(pipe) = 2
    /\ "init" \in pipe[1].ops /\ "init" \in pipe[2].ops
    /\ ov.current_window_idx = 1

(***************************************************************************)
(* Properties of SlideshowGenerator.generate                               *)
(***************************************************************************)
\* The schedule of the run is infeasible: T - a1 - a2 - Cmin <= 0 while the
\* naive closing T - a1 - a2 - n * d0 is below Cmin.
GenTimed == g # NoObject /\ g.timings # NoObject
GenInfeasible ==
    LET ts == gcfg.timing_settings
        T == gcfg.audio_duration
        fixed == RAdd(ts.opening_part1_duration, ts.opening_part2_duration)
    IN  /\ RLe(RSub(RSub(T, fixed), ts.min_closing_duration), R(0))
        /\ RLt(RSub(RSub(T, fixed), RMul(R(g.regular), ts.duration_per_image)),
               ts.min_closing_duration)

\* C4: if the schedule is infeasible, generate reports it and returns failure
\* before any segment is rendered: render_segment is never invoked in that
\* run.
C4_Original ==
    (GenTimed /\ GenInfeasible) =>
        /\ calls.renders = << >>
        /\ g.pc = "done" => g.ret = "False"

Lookups == IF calls = NoObject THEN << >> ELSE calls.lookups
Simulations == IF calls = NoObject THEN << >> ELSE calls.simulations

\* C10 as stated: two calls of _get_transition_overlay of one run with
\* identical particle type, density, size multiplier, duration, resolution
\* and window boundaries compute the same cache key, only one
\* generate_overlay_video call occurs for that key, and the second call
\* returns the cached overlay path.
C10_Original ==
    \A i \in DOMAIN Lookups, j \in DOMAIN Lookups :
        (i < j /\ Lookups[i].in = Lookups[j].in) =>
            /\ Lookups[i].cache_key = Lookups[j].cache_key
            /\ Cardinality({ a \in DOMAIN Simulations :
                    Simulations[a].cache_key = Lookups[i].cache_key }) = 1
            /\ Lookups[j].hit
            /\ Lookups[j].result # None
            /\ Lookups[j].result = Lookups[i].result

\* C10: two calls of _get_transition_overlay of one run with identical
\* particle type, density, size multiplier, duration, resolution and window
\* boundaries compute the same cache key; once a generate_overlay_video call
\* for a key has succeeded, every later call with that key returns the cached
\* path of that overlay without another generate_overlay_video call, so a key
\* has at most one successful simulation and none after it.
C10_OneSimulationOnceGenerated ==
    /\ \A i \in DOMAIN Lookups, j \in DOMAIN Lookups :
          (i < j /\ Lookups[i].in = Lookups[j].in) =>
              /\ Lookups[i].cache_key = Lookups[j].cache_key
              /\ Lookups[i].result # None =>
                    /\ Lookups[j].hit
                    /\ Lookups[j].result = Lookups[i].result
    /\ \A a \in DOMAIN Simulations, b \in DOMAIN Simulations :
          (a < b /\ Simulations[a].cache_key = Simulations[b].cache_key) =>
              ~Simulations[a].ok
    /\ Len(Simulations) = Cardinality({ i \in DOMAIN Lookups : ~Lookups[i].hit })

\* Two identical calls, the first of which generated the overlay and the
\* second of which was served from the cache, with one simulation in the run.
C10_Witness ==
    /\ Len(Simulations) = 1
    /\ \E i \in DOMAIN Lookups, j \in DOMAIN Lookups :
          /\ i < j
          /\ Lookups[i].in = Lookups[j].in
          /\ ~Lookups[i].hit /\ Lookups[i].result # None
          /\ Lookups[j].hit /\ Lookups[j].result = Lookups[i].result

\* The last call of the SegmentRenderer, or NoObject.
LastCall == IF sr = NoObject THEN NoObject ELSE sr.call
Renders == IF calls = NoObject THEN << >> ELSE calls.renders
Concats == IF calls = NoObject THEN << >> ELSE calls.concats

\* C11: a render_segment call whose engine exits non-zero or leaves no output
\* file returns False; generate then returns False, the failed render is the
\* last one of the run, the assembler is never invoked, and no segment file is
\* rendered twice.
C11_FailedSegmentAborts ==
    /\ (LastCall # NoObject /\ LastCall.op = "render_segment"
            /\ LastCall.engine.outcome \in { "exit1", "nofile" }) =>
          LastCall.returned /\ ~LastCall.ret
    /\ \A i \in DOMAIN Renders :
          (Renders[i].returned /\ ~Renders[i].ok) =>
              /\ i = Len(Renders)
              /\ Concats = << >>
              /\ g.pc \in { "finally", "done" }
              /\ g.ret = "False"
    /\ \A i \in DOMAIN Renders, j \in DOMAIN Renders :
          i # j => /\ Renders[i].output_file # Renders[j].output_file
                   /\ Renders[i].segment_name # Renders[j].segment_name

\* generate has returned False after its third or a later render found no
\* output file.
C11_Witness ==
    /\ g # NoObject /\ g.pc = "done" /\ g.ret = "False"
    /\ Len(Renders) >= 3
    /\ ~Renders[Len(Renders)].ok
    /\ LastCall.op = "render_segment" /\ LastCall.engine.outcome = "nofile"

\* C12: the assembler fails, without starting the engine, when it is given
\* no segments, and fails when the engine exits non-zero or the output file
\* is missing; generate returns True only after all n+3 renders succeeded and
\* the assembler's engine run exited with status 0 and left the output file.
C12_AssemblerFailsAndSuccessNeedsAll ==
    /\ (LastCall # NoObject /\ LastCall.op = "concatenate_segments") =>
          /\ LastCall.segments = << >> =>
                LastCall.returned /\ ~LastCall.ret /\ ~LastCall.engine_invoked
          /\ LastCall.engine.outcome \in { "exit1", "nofile" } => ~LastCall.ret
          /\ LastCall.ret => (LastCall.engine_invoked /\ LastCall.engine.outcome = "ok")
    /\ (g # NoObject /\ g.ret = "True") =>
          /\ Len(Renders) = g.regular + 3
          /\ \A i \in DOMAIN Renders : Renders[i].returned /\ Renders[i].ok
          /\ Len(Concats) = 1 /\ Concats[1].ok
          /\ Len(Concats[1].segments) = g.regular + 3
          /\ LastCall.op = "concatenate_segments" /\ LastCall.engine.outcome = "ok"
          /\ << "output" >> \in disk

\* generate has returned True for two regular images.
C12_Witness ==
    /\ g # NoObject /\ g.pc = "done" /\ g.ret = "True"
    /\ g.regular = 2
    /\ Len(Renders) = 5

FrameDiff(call) ==
    Abs(call.engine.frame_count - IntTrunc(RMul(call.duration, R(sr.fps))))
DurationDiff(call) == RAbs(RSub(call.engine.actual_duration, call.duration))
RenderedOk(call) ==
    call # NoObject /\ call.op = "render_segment" /\ call.engine.outcome = "ok"

\* A step of generate that is a render_segment call whose engine exited with
\* status 0 and left the output file.
RenderedOkStep ==
    /\ g # NoObject /\ sr' # sr
    /\ RenderedOk(sr'.call)

Schedule(n) ==
    << << "seg", 0, "opening1" >>, << "seg", 1, "opening2" >> >>
    \o [ i \in 1..n |-> << "seg", i + 1, "image", i >> ]
    \o << << "seg", n + 2, "closing" >> >>
ScheduleNames(n) ==
    << << "Opening-1" >>, << "Opening-2" >> >>
    \o [ i \in 1..n |-> << "Image", i >> ] \o << << "Closing" >> >>

\* C15: the render_segment calls of a run are made in schedule order -
\* opening part 1, opening part 2, the regular images 1..n, closing - each
\* after the one before it has returned True, and the list handed to
\* concatenate_segments is exactly those n+3 segment files in that order,
\* no file name twice.
C15_ScheduleOrder ==
    g # NoObject =>
        /\ Len(Renders) <= g.regular + 3
        /\ \A i \in DOMAIN Renders :
              /\ Renders[i].output_file = Schedule(g.regular)[i]
              /\ Renders[i].segment_name = ScheduleNames(g.regular)[i]
              /\ i < Len(Renders) => (Renders[i].returned /\ Renders[i].ok)
        /\ \A k \in DOMAIN g.segments : g.segments[k] = Schedule(g.regular)[k]
        /\ \A c \in DOMAIN Concats :
              /\ Concats[c].segments = Schedule(g.regular)
              /\ Len(Concats[c].segments) = g.regular + 3
              /\ Cardinality(Elems(Concats[c].segments)) = g.regular + 3
              /\ Len(Renders) = g.regular + 3

\* The assembler has been handed the five segments of a run with two regular
\* images.
C15_Witness ==
    /\ g # NoObject /\ g.regular = 2
    /\ Len(Concats) = 1
    /\ Len(Concats[1].segments) = 5

\* C16: every subprocess wait of the renderer has a timeout, so a call whose
\* engine never exits still returns, with failure, and generate is never left
\* blocked in a call.
C16_Original ==
    /\ LastCall # NoObject =>
          /\ LastCall.engine_invoked => LastCall.timeout # None
          /\ LastCall.returned
          /\ LastCall.engine.outcome = "hang" => ~LastCall.ret
    /\ g # NoObject => g.pc # "blocked"

\* The number of select_next calls made so far.
SelectCalls == IF selector = NoObject THEN 0 ELSE Len(selector.history)

\* C19: in a generation run select_next has been called once per boundary
\* between consecutive segments by the time the segments are assembled: n-1
\* times for n segments.
C19_Original ==
    \A c \in DOMAIN Concats : SelectCalls = Len(Concats[c].segments) - 1

\* C14 as stated: generate has passed the cleanup step on every path out, and
\* then the text files are removed and their list emptied, and the temp
\* directory with all segment and overlay files is removed.
C14_Original ==
    (g # NoObject /\ g.pc = "done") =>
        /\ g.cleanup.ran
        /\ g.temp_text_files = << >>
        /\ ~g.temp_dir
        /\ \A f \in disk : f[1] \notin { "txt", "seg", "overlay" }

\* C14: every path out of generate passes the cleanup step before generate
\* returns or lets the interrupt through; there the tracking list of the text
\* files is emptied and each text file removed unless its removal fails, and
\* the temp directory with all segment and overlay files is removed unless
\* its removal fails.
C14_CleanupBestEffort ==
    /\ (g # NoObject /\ g.pc = "done") =>
          /\ g.cleanup.ran
          /\ g.ret \in { "True", "False", "KeyboardInterrupt" }
          /\ g.temp_text_files = << >>
          /\ ~g.cleanup.text_failed => \A f \in disk : f[1] # "txt"
          /\ ~g.cleanup.rmtree_failed =>
                /\ ~g.temp_dir
                /\ \A f \in disk : f[1] \notin { "seg", "overlay" }
    /\ (g # NoObject /\ g.pc # "done") => ~g.cleanup.ran
    /\ (g # NoObject /\ g.ret # "None") => g.pc \in { "finally", "done" }

\* An interrupted run that had written text files, segments and an overlay
\* has passed the cleanup step and left none of them.
C14_Witness ==
    /\ g # NoObject /\ g.pc = "done" /\ g.ret = "KeyboardInterrupt"
    /\ g.cleanup.ran /\ ~g.cleanup.text_failed /\ ~g.cleanup.rmtree_failed
    /\ Len(Renders) >= 3
    /\ Len(Simulations) >= 1
    /\ \A f \in disk : f[1] \notin { "txt", "seg", "overlay" }

\* The configuration the claim is about: 1.0 <= zoom_min <= zoom_max and
\* pan_amount >= 0.
KenBurnsConfigured ==
    /\ kb # NoObject
    /\ RLe(R(1), kb.zoom_range[1])
    /\ RLe(kb.zoom_range[1], kb.zoom_range[2])
    /\ RLe(R(0), kb.pan_amount)
KenBurnsReturned == KenBurnsConfigured /\ kb.ret # None
PanCategories == { "pan_left", "pan_right", "pan_up", "pan_down" }
ZoomAndPanBounded(config) ==
    /\ RLe(R(1), config.zoom_start)
    /\ RLe(R(1), config.zoom_end)
    /\ RLe(RAbs(config.pan_x), kb.pan_amount)
    /\ RLe(RAbs(config.pan_y), kb.pan_amount)
PanZoomOffset(config) ==
    /\ config.zoom_start = RAdd(kb.zoom_range[1], Rat(1, 50))
    /\ config.zoom_end = config.zoom_start

\* C18 as stated: a returned descriptor has both zoom factors >= 1.0 and both
\* pan components within the pan amount; a descriptor of a pan category has
\* zoom_start = zoom_end = zoom_min + 0.02 and exactly one pan component
\* that is not zero.
C18_Original ==
    KenBurnsReturned =>
        /\ ZoomAndPanBounded(kb.ret)
        /\ kb.ret.effect_type \in PanCategories =>
              /\ PanZoomOffset(kb.ret)
              /\ (kb.ret.pan_x # R(0)) # (kb.ret.pan_y # R(0))

\* C18: a returned descriptor has both zoom factors >= 1.0 and both pan
\* components within the pan amount; a descriptor of a pan category has
\* zoom_start = zoom_end = zoom_min + 0.02, the pan component of its axis is
\* the pan amount with the sign of its direction and the other component is
\* zero, so exactly one component is not zero when the pan amount is
\* positive and none when it is zero.
C18_PanOnOneAxis ==
    KenBurnsReturned =>
        /\ ZoomAndPanBounded(kb.ret)
        /\ kb.ret.effect_type \in PanCategories =>
              /\ PanZoomOffset(kb.ret)
              /\ kb.ret.effect_type = "pan_left" =>
                    kb.ret.pan_x = RNeg(kb.pan_amount) /\ kb.ret.pan_y = R(0)
              /\ kb.ret.effect_type = "pan_right" =>
                    kb.ret.pan_x = kb.pan_amount /\ kb.ret.pan_y = R(0)
              /\ kb.ret.effect_type = "pan_up" =>
                    kb.ret.pan_y = RNeg(kb.pan_amount) /\ kb.ret.pan_x = R(0)
              /\ kb.ret.effect_type = "pan_down" =>
                    kb.ret.pan_y = kb.pan_amount /\ kb.ret.pan_x = R(0)
              /\ RLt(R(0), kb.pan_amount) =>
                    ((kb.ret.pan_x # R(0)) # (kb.ret.pan_y # R(0)))
              /\ kb.pan_amount = R(0) =>
                    (kb.ret.pan_x = R(0) /\ kb.ret.pan_y = R(0))

\* A pan to the left has been returned by a generator with the default zoom
\* range and pan amount.
C18_Witness ==
    /\ KenBurnsReturned
    /\ kb.zoom_range = << R(1), Rat(27, 25) >>
    /\ kb.pan_amount = Rat(3, 50)
    /\ kb.ret.effect_type = "pan_left"
    /\ kb.ret.pan_x = Rat(-3, 50) /\ kb.ret.pan_y = R(0)
    /\ kb.ret.zoom_start = Rat(51, 50)

\* The sum of the durations passed to the first k render_segment calls.
RECURSIVE SumRenderDurations(_)
SumRenderDurations(k) ==
    IF k = 0 THEN R(0) ELSE RAdd(SumRenderDurations(k - 1), Renders[k].duration)

\* C27: every regular image is rendered with the per-image duration that
\* calculate_timings returned, and once the n+3 segments of a run have been
\* rendered the durations passed to render_segment sum to
\* timings['total_video'].
C27_ReconciledDurations ==
    GenTimed =>
        /\ \A i \in DOMAIN Renders :
              /\ Renders[i].segment_name[1] = "Image" =>
                    Renders[i].duration = g.timings.image_duration
              /\ Renders[i].segment_name = << "Opening-1" >> =>
                    Renders[i].duration = g.timings.opening_part1
              /\ Renders[i].segment_name = << "Opening-2" >> =>
                    Renders[i].duration = g.timings.opening_part2
              /\ Renders[i].segment_name = << "Closing" >> =>
                    Renders[i].duration = g.timings.closing
        /\ Len(Renders) = g.regular + 3 =>
              SumRenderDurations(Len(Renders)) = g.timings.total_video

\* All segments of a run with two regular images have been rendered, the
\* images with a duration reduced below the configured one.
C27_Witness ==
    /\ GenTimed
    /\ g.regular = 2
    /\ Len(Renders) = 5
    /\ RLt(g.timings.image_duration, gcfg.timing_settings.duration_per_image)
    /\ Renders[3].duration = g.timings.image_duration
    /\ SumRenderDurations(5) = gcfg.audio_duration

\* C28: the active windows computed for a segment are in increasing order,
\* pairwise disjoint as half-open ranges, and each lies within the segment
\* (0 <= start <= end <= duration); a middle segment no longer than twice
\* the transition gets the two halves of the segment.
C28_WindowsDisjointOrdered ==
    (aw # NoObject /\ aw.active_windows # None) =>
        LET w == aw.active_windows
        IN  /\ \A i \in DOMAIN w :
                  /\ RLe(R(0), w[i][1])
                  /\ RLe(w[i][1], w[i][2])
                  /\ RLe(w[i][2], aw.duration)
            /\ \A i \in DOMAIN w, j \in DOMAIN w :
                  i < j => RLe(w[i][2], w[j][1])
            /\ (aw.segment_position = "middle"
                    /\ RLe(aw.duration, RMul(R(2), aw.td))) =>
                  w = << << R(0), RDiv(aw.duration, R(2)) >>,
                         << RDiv(aw.duration, R(2)), aw.duration >> >>
            /\ aw.segment_position = "middle" => Len(w) = 2
            /\ aw.segment_position # "middle" => Len(w) = 1

\* The windows of a middle segment of 1.5 s with a transition of 0.9 s have
\* been computed.
C28_Witness ==
    /\ aw # NoObject
    /\ aw.segment_position = "middle"
    /\ aw.duration = Rat(3, 2) /\ aw.td = Rat(9, 10)
    /\ aw.active_windows = << << R(0), Rat(3, 4) >>, << Rat(3, 4), Rat(3, 2) >> >>

\* A step of generate in which generate_overlay_video returned False.
FailedOverlayStep ==
    /\ g # NoObject
    /\ Len(calls'.simulations) = Len(calls.simulations) + 1
    /\ ~calls'.simulations[Len(calls'.simulations)].ok

\* C29: every path in the overlay cache belongs to an overlay whose
\* generation returned True; a _get_transition_overlay call whose
\* generate_overlay_video returned False returns None and leaves the cache as
\* it was, generate goes on to render the segment, and that segment is
\* rendered without overlay.
C29_FailedOverlayNotCached ==
    /\ [](g # NoObject =>
            /\ \A key \in cache_keys(g.overlay_cache) :
                  \E s \in DOMAIN Simulations :
                      /\ Simulations[s].ok
                      /\ Simulations[s].cache_key = key
                      /\ Simulations[s].output_path = cache_get(g.overlay_cache, key)
            /\ \A i \in DOMAIN Lookups :
                  Lookups[i].result # None =>
                      \E s \in DOMAIN Simulations :
                          /\ Simulations[s].ok
                          /\ Simulations[s].output_path = Lookups[i].result
            /\ \A i \in DOMAIN Renders :
                  Renders[i].overlay_path # None =>
                      Renders[i].overlay_path
                          \in { cache_get(g.overlay_cache, key) :
                                   key \in cache_keys(g.overlay_cache) })
    /\ [][FailedOverlayStep =>
            /\ g'.overlay = None
            /\ g'.overlay_cache = g.overlay_cache
            /\ g'.ret = "None"
            /\ g'.pc \in { "opening2", "image", "closing" }
            /\ calls'.lookups[Len(calls'.lookups)].result = None
            /\ ~calls'.lookups[Len(calls'.lookups)].hit]_vars

\* The overlay of the first image failed to generate, the image was rendered
\* without overlay and the run has gone on to a later segment.
C29_Witness ==
    /\ g # NoObject
    /\ Len(Renders) >= 4
    /\ \E s \in DOMAIN Simulations :
          /\ ~Simulations[s].ok
          /\ Simulations[s].cache_key \notin cache_keys(g.overlay_cache)
    /\ Renders[3].overlay_path = None /\ Renders[3].ok
    /\ Len(Simulations) = 1 /\ Len(Lookups) = 1
    /\ g.overlay_cache = {}

\* C24: the simulator holds at most one frame that it has produced and the
\* pipe has not taken; a frame is produced only after the write of the frame
\* before it has returned, whatever the number of frames of the overlay.
C24_OneUnsentFrame ==
    /\ [](stream # NoObject =>
            /\ stream.held <= 1
            /\ stream.produced - stream.written <= 1
            /\ stream.held = 1 <=> stream.pc = "write")
    /\ [][(stream # NoObject /\ stream'.produced = stream.produced + 1) =>
            /\ stream.held = 0
            /\ stream.written = stream.produced]_vars

\* The simulator holds the third frame of an overlay while the pipe is full
\* and the encoder runs: the write is blocked.
C24_Witness ==
    /\ stream # NoObject
    /\ stream.pc = "write"
    /\ stream.produced = 3 /\ stream.written = 2
    /\ stream.held = 1
    /\ stream.stdin_pipe = StdinCapacity
    /\ stream.encoder = "running"

\* The simulator is blocked in a write to the full stdin pipe; the encoder is
\* blocked in a write to its full stderr pipe, which the simulator reads only
\* in communicate.
SimulatorBlockedWriting ==
    /\ stream.pc = "write"
    /\ stream.encoder = "running"
    /\ stream.stdin_pipe = StdinCapacity
EncoderBlockedWriting ==
    /\ stream.encoder = "running"
    /\ stream.pending_diag = 1
    /\ stream.stderr_pipe = StderrCapacity

\* C25: there is no state in which the simulator is blocked writing a frame
\* while the encoder is blocked writing to a pipe the simulator does not
\* read.
C25_Original ==
    stream # NoObject => ~(SimulatorBlockedWriting /\ EncoderBlockedWriting)


=============================================================================
